---- MODULE Spec2Model ----
(***************************************************************************)
(* Model of the PraxisPro diagnosis fusion pipeline: core.py (symptom      *)
(* matching, rule engine, vitals adjustment, filter, audit log),           *)
(* hybrid_model.py (narrative provider calls, fusion, diagnose) and        *)
(* mimic_integration.py (reference-case lookup).                           *)
(*                                                                         *)
(* Texts are TLA+ strings and are inspected character by character, as the *)
(* Python code does (lower(), split(","), strip(), substring tests).       *)
(* Scores are fixed-point numbers in thousandths of a percentage point     *)
(* (35.0 is 35000); a Python dict is a sequence of <<key, value>> pairs in *)
(* insertion order.                                                        *)
(***************************************************************************)
EXTENDS Integers, Sequences, FiniteSets, TLC

(***************************************************************************)
(* Python str operations                                                   *)
(***************************************************************************)

UpperChars == "ABCDEFGHIJKLMNOPQRSTUVWXYZÄÖÜ"

LowerChars == "abcdefghijklmnopqrstuvwxyzäöü"

Ch(s, i) == SubSeq(s, i, i)

\* str.lower() on one character
LowerChar(c) ==
    IF \E i \in 1..Len(UpperChars) : Ch(UpperChars, i) = c
    THEN Ch(LowerChars, CHOOSE i \in 1..Len(UpperChars) : Ch(UpperChars, i) = c)
    ELSE c

RECURSIVE Lower(_)
\* str.lower()
Lower(s) == IF Len(s) = 0 THEN "" ELSE LowerChar(Ch(s, 1)) \o Lower(SubSeq(s, 2, Len(s)))

\* "needle in hay" on Python strings
Contains(needle, hay) ==
    \E i \in 1..(Len(hay) - Len(needle) + 1) : SubSeq(hay, i, i + Len(needle) - 1) = needle

\* str.startswith
StartsWith(s, p) == Len(p) <= Len(s) /\ SubSeq(s, 1, Len(p)) = p

\* str.find: index (1-based) of the first occurrence, 0 if absent
Find(needle, hay) ==
    IF Contains(needle, hay)
    THEN CHOOSE i \in 1..(Len(hay) - Len(needle) + 1) :
            /\ SubSeq(hay, i, i + Len(needle) - 1) = needle
            /\ \A j \in 1..(i - 1) : SubSeq(hay, j, j + Len(needle) - 1) # needle
    ELSE 0

IsSpace(c) == c \in {" ", "\t", "\n", "\r"}

RECURSIVE LStrip(_)
LStrip(s) == IF Len(s) > 0 /\ IsSpace(Ch(s, 1)) THEN LStrip(SubSeq(s, 2, Len(s))) ELSE s

RECURSIVE RStrip(_)
RStrip(s) == IF Len(s) > 0 /\ IsSpace(Ch(s, Len(s))) THEN RStrip(SubSeq(s, 1, Len(s) - 1)) ELSE s

\* str.strip()
Strip(s) == RStrip(LStrip(s))

\* str.split(sep) for a one-character separator: a sequence of strings
RECURSIVE Split(_, _)
Split(s, sep) ==
    LET i == Find(sep, s)
    IN  IF i = 0 THEN <<s>>
        ELSE <<SubSeq(s, 1, i - 1)>> \o Split(SubSeq(s, i + 1, Len(s)), sep)

\* str.split(sep, 1): head and rest around the first separator
Split1(s, sep) ==
    LET i == Find(sep, s)
    IN  <<SubSeq(s, 1, i - 1), SubSeq(s, i + 1, Len(s))>>

RECURSIVE Join(_, _)
\* sep.join(list)
Join(list, sep) ==
    IF Len(list) = 0 THEN ""
    ELSE IF Len(list) = 1 THEN list[1]
    ELSE list[1] \o sep \o Join(Tail(list), sep)

\* [f(x) for x in list]
MapSeq(list, F(_)) == [i \in 1..Len(list) |-> F(list[i])]

Digits == "0123456789"

IsDigit(c) == \E i \in 1..10 : Ch(Digits, i) = c

DigitVal(c) == (CHOOSE i \in 1..10 : Ch(Digits, i) = c) - 1

AllDigits(s) == Len(s) > 0 /\ \A i \in 1..Len(s) : IsDigit(Ch(s, i))

RECURSIVE DigitsVal(_)
DigitsVal(s) == IF Len(s) = 0 THEN 0
                ELSE DigitsVal(SubSeq(s, 1, Len(s) - 1)) * 10 + DigitVal(Ch(s, Len(s)))

\* a numeral without its leading sign
Unsigned(t) == IF Len(t) > 0 /\ Ch(t, 1) \in {"+", "-"} THEN SubSeq(t, 2, Len(t)) ELSE t

\* the magnitude mag with the sign that the numeral t carries
SignedVal(t, mag) == IF Len(t) > 0 /\ Ch(t, 1) = "-" THEN 0 - mag ELSE mag

\* int(s) succeeds: optional blanks, optional sign, decimal digits
IntOk(s) == AllDigits(Unsigned(Strip(s)))

IntValT(t) == SignedVal(t, DigitsVal(Unsigned(t)))

\* int(s), defined when IntOk(s)
IntVal(s) == IntValT(Strip(s))

FloatOkAt(u, p) ==
    IF p = 0 THEN AllDigits(u)
    ELSE /\ AllDigits(SubSeq(u, 1, p - 1) \o SubSeq(u, p + 1, Len(u)))
         /\ Len(u) - p <= 3

\* float(s) succeeds: optional sign, digits, optionally a point and up to
\* three decimals (the readings used here never carry more)
FloatOk(s) == FloatOkAt(Unsigned(Strip(s)), Find(".", Unsigned(Strip(s))))

\* the decimals fp of a numeral, in thousandths
FracVal(fp) ==
    DigitsVal(fp) * (IF Len(fp) = 0 THEN 1000 ELSE IF Len(fp) = 1 THEN 100
                     ELSE IF Len(fp) = 2 THEN 10 ELSE 1)

FloatMagAt(u, p) ==
    IF p = 0 THEN DigitsVal(u) * 1000
    ELSE DigitsVal(SubSeq(u, 1, p - 1)) * 1000 + FracVal(SubSeq(u, p + 1, Len(u)))

FloatValT(t) == SignedVal(t, FloatMagAt(Unsigned(t), Find(".", Unsigned(t))))

\* float(s) in thousandths, defined when FloatOk(s)
FloatVal(s) == FloatValT(Strip(s))

(***************************************************************************)
(* Fixed-point arithmetic on scores (thousandths of a percentage point)    *)
(***************************************************************************)

\* a score given in whole percentage points
Pct(n) == n * 1000

\* a score given in tenths of a percentage point
Tenths(n) == n * 100

Max2(a, b) == IF a >= b THEN a ELSE b

Min2(a, b) == IF a <= b THEN a ELSE b

\* v * (num / den) for v >= 0, rounded to the nearest thousandth; the
\* quotient and the remainder of v are scaled apart to stay within 32 bits
MulF(v, num, den) == (v \div den) * num + (2 * (v % den) * num + den) \div (2 * den)

\* round((v / total) * 100, 1): long division to tenths, ties to even
Round1(v, total) ==
    LET q0 == v \div total
        r0 == v % total
        q1 == q0 * 10 + (r0 * 10) \div total
        r1 == (r0 * 10) % total
        q2 == q1 * 10 + (r1 * 10) \div total
        r2 == (r1 * 10) % total
        q3 == q2 * 10 + (r2 * 10) \div total
        r3 == (r2 * 10) % total
        up == \/ 2 * r3 > total
              \/ (2 * r3 = total /\ q3 % 2 = 1)
    IN  Tenths(IF up THEN q3 + 1 ELSE q3)

(***************************************************************************)
(* Python dict as a sequence of <<key, value>> pairs in insertion order    *)
(***************************************************************************)

Keys(d) == {d[i][1] : i \in 1..Len(d)}

Has(d, k) == \E i \in 1..Len(d) : d[i][1] = k

Get(d, k) == d[CHOOSE i \in 1..Len(d) : d[i][1] = k][2]

\* d.get(k, default)
GetOr(d, k, default) == IF Has(d, k) THEN Get(d, k) ELSE default

\* d[k] = v: an existing key keeps its position, a new key goes last
Put(d, k, v) ==
    IF Has(d, k) THEN [i \in 1..Len(d) |-> IF d[i][1] = k THEN <<k, v>> ELSE d[i]]
    ELSE Append(d, <<k, v>>)

RECURSIVE SumValues(_)
\* sum(d.values())
SumValues(d) == IF Len(d) = 0 THEN 0 ELSE d[1][2] + SumValues(Tail(d))

\* the position of entry i of d in the stable descending order
RankDesc(d, i) ==
    1 + Cardinality({j \in 1..Len(d) : d[j][2] > d[i][2] \/ (d[j][2] = d[i][2] /\ j < i)})

\* sorted(d.items(), key=lambda x: x[1], reverse=True): stable
SortDesc(d) == [r \in 1..Len(d) |-> d[CHOOSE i \in 1..Len(d) : RankDesc(d, i) = r]]

\* the values of d are in descending order
IsDescending(d) == \A i \in 1..(Len(d) - 1) : d[i][2] >= d[i + 1][2]

\* normalise every value to a share of 100, rounded to one decimal
NormalizeMap(d) ==
    LET total == SumValues(d)
    IN  IF total > 0 THEN [i \in 1..Len(d) |-> <<d[i][1], Round1(d[i][2], total)>>] ELSE d

(***************************************************************************)
(* core.py                                                                 *)
(***************************************************************************)

\* Python's None, and the marker of a key that a dict does not have
None == "<None>"

Absent == "<absent>"

\* alter in ["Säugling", "Kleinkind", "Kind"]
IstKind(alter) == alter \in {"Säugling", "Kleinkind", "Kind"}

\* The symptom dictionary read by load_symptom_db from symptoms.json:
\* entries <<id, name, synonyme>> in file order.
SYMPTOM_DB ==
    <<
      <<"S1", "Brustschmerzen", <<"Thoraxschmerz">> >>,
      <<"S2", "Kurzatmigkeit", <<"Atemnot", "Dyspnoe">> >>,
      <<"S3", "Fieber >38°C", <<"Fieber", "erhöhte Temperatur">> >>,
      <<"S4", "Husten", <<"Reizhusten">> >>,
      <<"S5", "Lähmungserscheinungen", <<"Lähmung">> >>,
      <<"S6", "Sprachstörungen", <<"Aphasie">> >>,
      <<"S7", "Hautausschlag", <<"Ausschlag", "Quaddeln">> >>,
      <<"S8", "Dysurie", <<"Brennen beim Wasserlassen">> >>,
      <<"S9", "Heiserkeit", <<>> >>,
      <<"S10", "Schwitzen", <<"Schweißausbrüche">> >>,
      <<"S11", "Übelkeit", <<"Uebelkeit">> >>
    >>

\* parse_vitals: 'HR:80,T:36.8' to a dict of stripped strings
RECURSIVE ParsePairs(_, _, _)
ParsePairs(pairs, vitals, stripPair) ==
    IF Len(pairs) = 0 THEN vitals
    ELSE LET pair == IF stripPair THEN Strip(Head(pairs)) ELSE Head(pairs)
             kv == Split1(pair, ":")
         IN  ParsePairs(Tail(pairs),
                        IF Contains(":", pair) THEN Put(vitals, Strip(kv[1]), Strip(kv[2]))
                        ELSE vitals,
                        stripPair)

parse_vitals(vitals_string) ==
    IF vitals_string = "" \/ Strip(vitals_string) = "" THEN <<>>
    ELSE ParsePairs(Split(vitals_string, ","), <<>>, TRUE)

\* map(int, vitals['BP'].split('/')) unpacked into two names succeeds
BpOk(bp) ==
    LET parts == Split(bp, "/")
    IN  Len(parts) = 2 /\ IntOk(parts[1]) /\ IntOk(parts[2])

HrWarning(hr, alter) ==
    IF alter = "Säugling"
    THEN (IF hr > 160 THEN <<"Tachykardie (HR > 160 bei Säugling)">>
          ELSE IF hr < 100 THEN <<"Bradykardie (HR < 100 bei Säugling)">>
          ELSE <<>>)
    ELSE IF IstKind(alter)
    THEN (IF hr > 140 THEN <<"Tachykardie (HR > 140 bei Kind)">>
          ELSE IF hr < 80 THEN <<"Bradykardie (HR < 80 bei Kind)">>
          ELSE <<>>)
    ELSE (IF hr > 120 THEN <<"Tachykardie (HR > 120)">>
          ELSE IF hr < 50 THEN <<"Bradykardie (HR < 50)">>
          ELSE <<>>)

BpWarning(systolic, alter) ==
    IF IstKind(alter)
    THEN (IF systolic > 130 THEN <<"Erhöhter Blutdruck (Systolisch > 130 bei Kind)">>
          ELSE IF systolic < 80 THEN <<"Hypotonie (Systolisch < 80 bei Kind)">>
          ELSE <<>>)
    ELSE (IF systolic > 180 THEN <<"Schwere Hypertonie (Systolisch > 180)">>
          ELSE IF systolic < 90 THEN <<"Hypotonie (Systolisch < 90)">>
          ELSE <<>>)

TempWarning(temp) ==
    IF temp >= 39500 THEN <<"Hohes Fieber (T >= 39.5°C)">>
    ELSE IF temp <= 35500 THEN <<"Hypothermie (T <= 35.5°C)">>
    ELSE <<>>

Spo2Warning(spo2, alter) ==
    IF IstKind(alter)
    THEN (IF spo2 < 94 THEN <<"Sauerstoffsättigung kritisch (SpO2 < 94% bei Kind)">> ELSE <<>>)
    ELSE (IF spo2 < 92 THEN <<"Sauerstoffsättigung kritisch (SpO2 < 92%)">> ELSE <<>>)

\* int(vitals[k]) / float(vitals[k]) succeed for a key that is present
HasInt(vitals, k) == Has(vitals, k) /\ IntOk(Get(vitals, k))

HasFloat(vitals, k) == Has(vitals, k) /\ FloatOk(Get(vitals, k))

\* check_vitals: the list of warnings (the comparison signs of the two
\* temperature texts are written in ASCII); a value that does not parse raises
\* ValueError inside its own try block and adds nothing
check_vitals(vitals, alter) ==
    (IF HasInt(vitals, "HR") THEN HrWarning(IntVal(Get(vitals, "HR")), alter) ELSE <<>>)
    \o (IF Has(vitals, "BP") /\ Contains("/", Get(vitals, "BP")) /\ BpOk(Get(vitals, "BP"))
        THEN BpWarning(IntVal(Split(Get(vitals, "BP"), "/")[1]), alter) ELSE <<>>)
    \o (IF HasFloat(vitals, "T") THEN TempWarning(FloatVal(Get(vitals, "T"))) ELSE <<>>)
    \o (IF HasInt(vitals, "SpO2") THEN Spo2Warning(IntVal(Get(vitals, "SpO2")), alter) ELSE <<>>)

\* d[k] = min(100, d[k] * num/den) when cond holds and k is in d
Boost(d, cond, k, num, den) ==
    IF cond /\ Has(d, k) THEN Put(d, k, Min2(Pct(100), MulF(Get(d, k), num, den))) ELSE d

\* the temperature block of adjust_diagnosis_with_vitals
AdjustTemp(diagnosen, ist_kind, temp) ==
    LET a1 == Boost(diagnosen, temp >= 38500, "Lungenentzündung", 12, 10)
        a2 == Boost(a1, temp >= 39000, "Virusgrippe", 12, 10)
        a3 == Boost(a2, ist_kind /\ temp >= 38500, "Bronchiolitis", 13, 10)
        a4 == Boost(a3, ist_kind /\ temp >= 39000, "Pseudokrupp", 12, 10)
        a5 == Boost(a4, ist_kind /\ temp >= 39000, "Otitis media", 13, 10)
    IN  Boost(a5, ist_kind /\ temp >= 39500, "Meningitis", 14, 10)

\* the oxygen saturation block
AdjustSpo2(diagnosen, ist_kind, spo2) ==
    LET b1 == Boost(diagnosen, spo2 < 92, "Pulmonalembolie", 13, 10)
        b2 == Boost(b1, spo2 < 90, "Lungenentzündung", 12, 10)
        b3 == Boost(b2, ist_kind /\ spo2 < 94, "Bronchiolitis", 14, 10)
        b4 == Boost(b3, ist_kind /\ spo2 < 93, "RSV-Bronchiolitis", 14, 10)
    IN  Boost(b4, ist_kind /\ spo2 < 92, "Pneumonie bei Kindern", 15, 10)

\* the heart rate block
AdjustHr(diagnosen, ist_kind, hr) ==
    LET c1 == Boost(diagnosen, hr > 110, "Akuter Herzinfarkt", 13, 10)
        c2 == Boost(c1, hr > 120, "Lungenembolie", 14, 10)
        c3 == Boost(c2, ist_kind /\ hr > 120, "Pseudokrupp", 12, 10)
        c4 == Boost(c3, ist_kind /\ hr > 130, "RSV-Bronchiolitis", 13, 10)
    IN  Boost(c4, ist_kind /\ hr > 140, "Meningitis", 15, 10)

\* a block runs when its reading is present and parses
AdjustTempIf(diagnosen, vitals, alter) ==
    IF HasFloat(vitals, "T")
    THEN AdjustTemp(diagnosen, IstKind(alter), FloatVal(Get(vitals, "T"))) ELSE diagnosen

AdjustSpo2If(diagnosen, vitals, alter) ==
    IF HasInt(vitals, "SpO2")
    THEN AdjustSpo2(diagnosen, IstKind(alter), IntVal(Get(vitals, "SpO2"))) ELSE diagnosen

AdjustHrIf(diagnosen, vitals, alter) ==
    IF HasInt(vitals, "HR")
    THEN AdjustHr(diagnosen, IstKind(alter), IntVal(Get(vitals, "HR"))) ELSE diagnosen

\* adjust_diagnosis_with_vitals
adjust_diagnosis_with_vitals(diagnosen, vitals, alter) ==
    IF Len(vitals) = 0 THEN diagnosen
    ELSE NormalizeMap(AdjustHrIf(AdjustSpo2If(AdjustTempIf(diagnosen, vitals, alter), vitals, alter),
                                 vitals, alter))

\* symptome_abgleichen: <<symptom_ids, unmatched>>
EntryMatches(symptom, entry) ==
    \/ Contains(symptom, Lower(entry[2]))
    \/ \E j \in 1..Len(entry[3]) : Contains(Lower(entry[3][j]), symptom)

RECURSIVE MatchLoop(_, _, _)
MatchLoop(eingabe_liste, symptom_ids, unmatched) ==
    IF Len(eingabe_liste) = 0 THEN <<symptom_ids, unmatched>>
    ELSE LET symptom == Head(eingabe_liste)
             found == \E i \in 1..Len(SYMPTOM_DB) : EntryMatches(symptom, SYMPTOM_DB[i])
             first == CHOOSE i \in 1..Len(SYMPTOM_DB) :
                         /\ EntryMatches(symptom, SYMPTOM_DB[i])
                         /\ \A j \in 1..(i - 1) : ~EntryMatches(symptom, SYMPTOM_DB[j])
         IN  IF symptom = "" THEN MatchLoop(Tail(eingabe_liste), symptom_ids, unmatched)
             ELSE IF found
             THEN MatchLoop(Tail(eingabe_liste), Append(symptom_ids, SYMPTOM_DB[first][1]), unmatched)
             ELSE MatchLoop(Tail(eingabe_liste), symptom_ids, Append(unmatched, symptom))

StripLower(s) == Lower(Strip(s))

symptome_abgleichen(eingabe) ==
    MatchLoop(MapSeq(Split(eingabe, ","), StripLower), <<>>, <<>>)

\* re.search(label + r"\s*(.*?)(?:\n|$)", text, re.IGNORECASE).group(1),
\* called only when label is in text.lower()
Section(label, text) ==
    LET i == Find(label, Lower(text))
        rest == LStrip(SubSeq(text, i + Len(label), Len(text)))
        j == Find("\n", rest)
    IN  IF j = 0 THEN rest ELSE SubSeq(rest, 1, j - 1)

\* the "key: value" items of a labelled section as a dict with lower-cased,
\* stripped keys; lowerValue tells whether the values are lower-cased too
RECURSIVE ItemsDict(_, _, _)
ItemsDict(items, d, lowerValue) ==
    IF Len(items) = 0 THEN d
    ELSE LET item == Head(items)
             kv == Split1(item, ":")
             value == IF lowerValue THEN Lower(Strip(kv[2])) ELSE Strip(kv[2])
         IN  ItemsDict(Tail(items),
                       IF Contains(":", item) THEN Put(d, Lower(Strip(kv[1])), value) ELSE d,
                       lowerValue)

SectionDict(label, text, lowerValue) ==
    IF Contains(label, Lower(text))
    THEN ItemsDict(Split(Section(label, text), ","), <<>>, lowerValue)
    ELSE <<>>

\* the first whitespace-separated word of s, "" when str.split() is empty
FirstWord(s) ==
    LET t == LStrip(s)
        ends == {i \in 1..Len(t) : IsSpace(Ch(t, i))}
    IN  IF ends = {} THEN t
        ELSE SubSeq(t, 1, (CHOOSE i \in ends : \A j \in ends : i <= j) - 1)

leitsymptome ==
    <<
      <<"brustschmerzen", <<"Akuter Herzinfarkt", "Angina pectoris", "Lungenembolie">> >>,
      <<"atemnot", <<"Akuter Herzinfarkt", "Lungenembolie", "Asthma-Anfall", "Pneumonie">> >>,
      <<"starke kopfschmerzen", <<"Meningitis", "Schlaganfall", "Subarachnoidalblutung">> >>,
      <<"lähmungserscheinungen", <<"Schlaganfall", "Multiple Sklerose">> >>,
      <<"sprachstörungen", <<"Schlaganfall", "Transitorische ischämische Attacke">> >>,
      <<"bewusstlosigkeit", <<"Synkope", "Epilepsie", "Hypoglykämie">> >>
    >>

RECURSIVE AddLeit(_, _)
\* zusatz_diagnosen[diagnose] = zusatz_diagnosen.get(diagnose, 0) + 35.0
AddLeit(z, diagnosen) ==
    IF Len(diagnosen) = 0 THEN z
    ELSE AddLeit(Put(z, Head(diagnosen), GetOr(z, Head(diagnosen), 0) + Pct(35)), Tail(diagnosen))

RECURSIVE LeitTable(_, _, _)
LeitTable(z, symptom, j) ==
    IF j > Len(leitsymptome) THEN z
    ELSE LeitTable(IF Contains(leitsymptome[j][1], symptom) THEN AddLeit(z, leitsymptome[j][2]) ELSE z,
                   symptom, j + 1)

RECURSIVE LeitLoop(_, _)
LeitLoop(z, symptom_list) ==
    IF Len(symptom_list) = 0 THEN z
    ELSE LeitLoop(LeitTable(z, Head(symptom_list), 1), Tail(symptom_list))

\* zusatz_diagnosen[k] = v when cond holds
PutIf(cond, d, k, v) == IF cond THEN Put(d, k, v) ELSE d

Put2If(cond, d, k1, v1, k2, v2) == IF cond THEN Put(Put(d, k1, v1), k2, v2) ELSE d

Put3If(cond, d, k1, v1, k2, v2, k3, v3) ==
    IF cond THEN Put(Put(Put(d, k1, v1), k2, v2), k3, v3) ELSE d

\* zusatz_diagnosen[k] = max(v, zusatz_diagnosen.get(k, 0)) when cond holds
PutMaxIf(cond, d, k, v) == IF cond THEN Put(d, k, Max2(v, GetOr(d, k, 0))) ELSE d

\* any(term in text for term in terms)
AnyIn(terms, text) == \E term \in terms : Contains(term, text)

\* the parsed context of apply_medical_rules
Vorerkrankungen(zusatzinfos) ==
    IF Contains("vorerkrankungen:", Lower(zusatzinfos))
    THEN MapSeq(Split(Section("vorerkrankungen:", zusatzinfos), ","), StripLower)
    ELSE <<>>

InList(list, x) == \E i \in 1..Len(list) : list[i] = x

\* the pediatric branch of apply_medical_rules is taken
RulesPediatric(symptome, alter) ==
    \/ IstKind(alter)
    \/ \E term \in {"säugling", "kind", "kindlich", "bellend"} : Contains(term, Lower(symptome))

\* apply_medical_rules raises: int(vitals['HR']) outside any try block
\* (ValueError), or laborwerte["crp"].split()[0] on a blank value (IndexError)
RulesRaiseOn(joined, laborwerte, symptome, vitals, alter) ==
    \/ /\ ~RulesPediatric(symptome, alter)
       /\ Contains("brustschmerzen", joined) /\ Contains("kurzatmigkeit", joined)
       /\ Len(vitals) > 0 /\ Has(vitals, "HR") /\ ~IntOk(Get(vitals, "HR"))
    \/ /\ Has(laborwerte, "crp")
       /\ FirstWord(Get(laborwerte, "crp")) = ""

apply_medical_rules_raises(symptome, vitals, alter, zusatzinfos) ==
    RulesRaiseOn(Join(MapSeq(Split(symptome, ","), StripLower), " "),
                 SectionDict("laborwerte:", zusatzinfos, TRUE), symptome, vitals, alter)

\* the pediatric rules; low is symptome.lower()
RulesChild(z, joined, low, alter, untersuchungsergebnisse) ==
    LET p1 == PutIf(Contains("husten", joined) /\ AnyIn({"bellend", "heiser", "heiserkeit"}, low),
                    z, "Pseudokrupp", Pct(80))
        p2 == Put3If(Contains("husten", joined) /\ Contains("fieber", joined) /\ alter = "Säugling",
                     p1, "RSV-Bronchiolitis", Pct(75), "Virale Atemwegsinfektion", Pct(65),
                     "Bronchiolitis", Pct(70))
        c3 == Contains("fieber", joined) /\ AnyIn({"atemnot", "kurzatmig", "atembeschwerden"}, low)
        p3a == Put2If(c3 /\ alter = "Säugling", p2, "Bronchiolitis", Pct(80), "RSV-Bronchiolitis", Pct(75))
        p3 == Put2If(c3 /\ alter # "Säugling", p3a, "Bronchitis", Pct(65), "Pneumonie bei Kindern", Pct(60))
        p4 == PutIf(Contains("fieber", joined) /\ Contains("ohrenschmerzen", joined),
                    p3, "Akute Otitis media", Pct(80))
    IN  PutIf(/\ Has(untersuchungsergebnisse, "hno")
              /\ AnyIn({"trommelfell gerötet", "trommelfell vorgewölbt"}, Get(untersuchungsergebnisse, "hno")),
              p4, "Akute Otitis media", Pct(85))

\* the adult rules
RulesAdult(z, joined, vitals, untersuchungsergebnisse) ==
    LET cBK == Contains("brustschmerzen", joined) /\ Contains("kurzatmigkeit", joined)
        tachy == Len(vitals) > 0 /\ Has(vitals, "HR") /\ IntVal(Get(vitals, "HR")) > 100
        e0 == PutIf(cBK /\ ~tachy, z, "Angina pectoris", Pct(60))
        e1 == Put2If(cBK /\ tachy, e0, "Akuter Herzinfarkt", Pct(70), "Akutes Koronarsyndrom", Pct(65))
        hasCor == cBK /\ Has(untersuchungsergebnisse, "cor")
        e2 == PutIf(hasCor /\ AnyIn({"herzgeräusch", "systolikum"}, Get(untersuchungsergebnisse, "cor")),
                    e1, "Herzklappenfehler", Pct(55))
        e3 == PutIf(hasCor /\ Contains("tachykardie", Get(untersuchungsergebnisse, "cor")),
                    e2, "Akuter Herzinfarkt", Pct(75))
        e4 == PutIf(Contains("kopfschmerzen", joined) /\ Contains("lichtempfindlichkeit", joined),
                    e3, "Migräne", Pct(75))
        cHFA == Contains("husten", joined) /\ Contains("fieber", joined) /\ Contains("auswurf", joined)
        e5 == Put2If(cHFA, e4, "Bronchitis", Pct(70), "Pneumonie", Pct(65))
    IN  PutIf(/\ cHFA /\ Has(untersuchungsergebnisse, "pulmo")
              /\ AnyIn({"rasselgeräusche", "bronchial"}, Get(untersuchungsergebnisse, "pulmo")),
              e5, "Pneumonie", Pct(80))

\* the branch on the age group
RulesByAge(z, joined, symptome, vitals, alter, untersuchungsergebnisse) ==
    IF RulesPediatric(symptome, alter)
    THEN RulesChild(z, joined, Lower(symptome), alter, untersuchungsergebnisse)
    ELSE RulesAdult(z, joined, vitals, untersuchungsergebnisse)

\* the rules on pre-existing conditions
RulesVorerkrankungen(z, joined, vorerkrankungen) ==
    LET resp == Contains("husten", joined) \/ Contains("atemnot", joined)
        v1 == PutIf(/\ resp
                    /\ (InList(vorerkrankungen, "asthma") \/ InList(vorerkrankungen, "asthma bronchiale")),
                    z, "Asthma-Exazerbation", Pct(70))
        v2 == PutIf(/\ resp
                    /\ (\/ InList(vorerkrankungen, "copd")
                        \/ InList(vorerkrankungen, "chronisch obstruktive lungenerkrankung")),
                    v1, "COPD-Exazerbation", Pct(75))
    IN  PutIf(/\ (Contains("durst", joined) \/ Contains("polyurie", joined))
              /\ (InList(vorerkrankungen, "diabetes") \/ InList(vorerkrankungen, "diabetes mellitus")),
              v2, "Entgleister Diabetes", Pct(65))

\* the CRP rules, for the first word of the CRP value
RulesCrp(z, joined, crpText) ==
    LET crpHigh == FloatOk(crpText) /\ FloatVal(crpText) > Pct(100) /\ Contains("fieber", joined)
        l1 == PutIf(crpHigh, z, "Bakterielle Infektion", Pct(80))
        l2 == PutIf(crpHigh /\ Contains("husten", joined), l1, "Pneumonie", Pct(85))
    IN  PutIf(crpHigh /\ (Contains("dysurie", joined) \/ Contains("pollakisurie", joined)),
              l2, "Pyelonephritis", Pct(85))

\* the leukocyte rules, for the text before the first "/"
RulesLeuko(z, leukoText) ==
    IF ~FloatOk(leukoText) THEN z
    ELSE IF FloatVal(leukoText) > Pct(12)
    THEN Put(z, "Bakterielle Infektion", Max2(Pct(65), GetOr(z, "Bakterielle Infektion", 0)))
    ELSE IF FloatVal(leukoText) < Pct(4)
    THEN Put(z, "Virale Infektion", Pct(60))
    ELSE z

RulesCrpIf(z, joined, laborwerte) ==
    IF Has(laborwerte, "crp") THEN RulesCrp(z, joined, FirstWord(Get(laborwerte, "crp"))) ELSE z

RulesLeukoIf(z, laborwerte) ==
    IF Has(laborwerte, "leukozyten")
    THEN RulesLeuko(z, Split(Get(laborwerte, "leukozyten"), "/")[1]) ELSE z

\* the classic constellations
RulesKlassisch(z, joined) ==
    LET k1 == PutMaxIf(/\ Contains("brustschmerzen", joined) /\ Contains("ausstrahlung", joined)
                       /\ Contains("arm", joined),
                       z, "Akuter Herzinfarkt", Pct(90))
        k2 == PutMaxIf(/\ Contains("fieber", joined) /\ Contains("nackensteifigkeit", joined)
                       /\ Contains("kopfschmerzen", joined),
                       k1, "Meningitis", Pct(90))
        k3 == PutMaxIf(/\ (Contains("lähmung", joined) \/ Contains("schwäche einseitig", joined))
                       /\ Contains("sprachstörung", joined),
                       k2, "Schlaganfall", Pct(85))
    IN  PutMaxIf(/\ Contains("bauchschmerzen", joined) /\ Contains("erbrechen", joined)
                 /\ Contains("rechtsseitig", joined),
                 k3, "Appendizitis", Pct(80))

\* apply_medical_rules for the parsed symptom list and its joined text
RulesOn(symptom_list, joined, symptome, vitals, alter, zusatzinfos) ==
    RulesKlassisch(
        RulesLeukoIf(
            RulesCrpIf(
                RulesVorerkrankungen(
                    RulesByAge(LeitLoop(<<>>, symptom_list), joined, symptome, vitals, alter,
                               SectionDict("untersuchungsergebnisse:", zusatzinfos, TRUE)),
                    joined, Vorerkrankungen(zusatzinfos)),
                joined, SectionDict("laborwerte:", zusatzinfos, TRUE)),
            SectionDict("laborwerte:", zusatzinfos, TRUE)),
        joined)

RulesOnList(symptom_list, symptome, vitals, alter, zusatzinfos) ==
    RulesOn(symptom_list, Join(symptom_list, " "), symptome, vitals, alter, zusatzinfos)

\* apply_medical_rules: the dict zusatz_diagnosen, when it does not raise
apply_medical_rules(symptome, vitals, alter, zusatzinfos) ==
    RulesOnList(MapSeq(Split(symptome, ","), StripLower), symptome, vitals, alter, zusatzinfos)

\* d[k] = d[k] * num/den for every key that satisfies Test
ScaleWhere(d, Test(_), num, den) ==
    [i \in 1..Len(d) |-> IF Test(d[i][1]) THEN <<d[i][1], MulF(d[i][2], num, den)>> ELSE d[i]]

ScaleIf(cond, d, Test(_), num, den) == IF cond THEN ScaleWhere(d, Test, num, den) ELSE d

adult_only_diagnoses ==
    {"Angina pectoris", "Myokardinfarkt", "Akuter Herzinfarkt", "Kardiomyopathie",
     "Klimakterisches Syndrom", "Psoriasis", "Herzinsuffizienz", "Fazialisparese",
     "COPD", "Tiefe Beinvenenthrombose", "Lungenembolie", "Koronare Herzkrankheit"}

child_only_diagnoses ==
    {"RSV-Bronchiolitis", "Pseudokrupp", "Bronchiolitis", "Epiglottitis",
     "Säuglingshusten", "Dreimonatskoliken", "Windeldermatitis"}

red_flags ==
    <<
      <<"plötzliche stärkste kopfschmerzen", {"Subarachnoidalblutung", "Meningitis"}>>,
      <<"akuter vernichtungsschmerz", {"Aortendissektion", "Akuter Herzinfarkt"}>>,
      <<"atemstillstand", {"Respiratorische Insuffizienz", "Kardiopulmonale Reanimation"}>>,
      <<"bewusstlosigkeit plötzlich", {"Synkope", "Status epilepticus", "Hirnblutung"}>>
    >>

RECURSIVE RedFlagTable(_, _, _)
RedFlagTable(d, symptom, j) ==
    IF j > Len(red_flags) THEN d
    ELSE LET InFlag(k) == k \in red_flags[j][2]
         IN  RedFlagTable(IF Contains(red_flags[j][1], symptom) THEN ScaleWhere(d, InFlag, 5, 1) ELSE d,
                          symptom, j + 1)

RECURSIVE RedFlagLoop(_, _)
RedFlagLoop(d, symptom_list) ==
    IF Len(symptom_list) = 0 THEN d
    ELSE RedFlagLoop(RedFlagTable(d, Head(symptom_list), 1), Tail(symptom_list))

\* the pediatric branch of filter_unlikely_diagnoses is taken
FilterPediatric(symptome, alter) ==
    \/ IstKind(alter)
    \/ \E term \in {"säugling", "kind", "kindlich"} : Contains(term, Lower(symptome))

IsAdultOnly(k) == k \in adult_only_diagnoses

IsChildOnly(k) == k \in child_only_diagnoses

IsInfarkt(k) == k \in {"Akuter Herzinfarkt", "Myokardinfarkt"}

IsSchlaganfall(k) == k = "Schlaganfall"

\* any(inf_dx in diagnose for inf_dx in [...])
IsInfectious(k) == AnyIn({"Pneumonie", "Bronchiolitis", "Virale Infektion", "Bronchitis"}, k)

IsUro(k) == k \in {"Harnwegsinfektion", "Zystitis", "Pyelonephritis"}

IsCardiacName(low) ==
    Contains("kardial", low) \/ Contains("herz", low) \/ Contains("infarkt", low)

IsCardiac(k) == ~IsUro(k) /\ IsCardiacName(Lower(k))

\* the vitals block of filter_unlikely_diagnoses, entered when T and HR parse
FilterVitals(d, alter, temp, hr) ==
    ScaleIf(temp > 38500 /\ hr > 100 /\ IstKind(alter),
            ScaleIf(temp > 38500 /\ hr < 100, d, IsInfarkt, 1, 10),
            IsInfectious, 2, 1)

FilterVitalsIf(d, alter, vitals_dict) ==
    IF /\ Len(vitals_dict) > 0 /\ Has(vitals_dict, "T") /\ Has(vitals_dict, "HR")
       /\ FloatOk(Get(vitals_dict, "T")) /\ IntOk(Get(vitals_dict, "HR"))
    THEN FilterVitals(d, alter, FloatVal(Get(vitals_dict, "T")), IntVal(Get(vitals_dict, "HR")))
    ELSE d

\* the age block
FilterAge(diagnosen, symptome, alter) ==
    IF FilterPediatric(symptome, alter) THEN ScaleWhere(diagnosen, IsAdultOnly, 1, 100)
    ELSE ScaleWhere(diagnosen, IsChildOnly, 1, 100)

\* the multiplicative adjustments for the symptom list and its joined text
FilterOn(diagnosen, symptom_list, joined, symptome, alter, vitals_dict) ==
    LET f2 == ScaleIf(/\ Contains("brustschmerzen", joined)
                      /\ (Contains("atemnot", joined) \/ Contains("kurzatmigkeit", joined)),
                      FilterAge(diagnosen, symptome, alter), IsInfarkt, 5, 2)
        f3 == ScaleIf(/\ (Contains("lähmung", joined) \/ Contains("schwäche", joined))
                      /\ (Contains("sprachstörung", joined) \/ Contains("sprachverlust", joined)),
                      f2, IsSchlaganfall, 3, 1)
        f6 == FilterVitalsIf(RedFlagLoop(f3, symptom_list), alter, vitals_dict)
        uro == Contains("dysurie", joined) \/ Contains("brennen beim wasserlassen", joined)
    IN  ScaleIf(uro, ScaleIf(uro, f6, IsUro, 3, 1), IsCardiac, 1, 50)

FilterOnList(diagnosen, symptom_list, symptome, alter, vitals_dict) ==
    FilterOn(diagnosen, symptom_list, Join(symptom_list, " "), symptome, alter, vitals_dict)

\* filter_unlikely_diagnoses up to the threshold step: the map after every
\* multiplicative adjustment (vitals is the raw vitals text, "" for None)
FilterAdjusted(diagnosen, symptome, alter, vitals) ==
    FilterOnList(diagnosen, Split(Lower(symptome), ","), symptome, alter,
                 IF vitals = "" THEN <<>> ELSE ParsePairs(Split(vitals, ","), <<>>, FALSE))

AboveOne(e) == e[2] > Pct(1)

AboveTwo(e) == e[2] > Pct(2)

\* a filter without the multiplicative adjustments: threshold, normalisation
\* and cut only
filter_unlikely_diagnoses_plain(diagnosen, symptome, alter, vitals) ==
    SelectSeq(NormalizeMap(SelectSeq(diagnosen, AboveOne)), AboveTwo)

\* filter_unlikely_diagnoses
filter_unlikely_diagnoses(diagnosen, symptome, alter, vitals) ==
    SelectSeq(NormalizeMap(SelectSeq(FilterAdjusted(diagnosen, symptome, alter, vitals), AboveOne)),
              AboveTwo)

\* table.get(key, default) on a table of <<key, text>> pairs
Lookup(table, key, default) ==
    IF \E i \in 1..Len(table) : table[i][1] = key
    THEN table[CHOOSE i \in 1..Len(table) : table[i][1] = key][2]
    ELSE default

\* max(diagnosen, key=diagnosen.get): the first key with the largest value
MaxKey(d) ==
    IF Len(d) = 0 THEN None
    ELSE d[CHOOSE i \in 1..Len(d) :
              /\ \A j \in 1..Len(d) : d[i][2] >= d[j][2]
              /\ \A j \in 1..(i - 1) : d[j][2] < d[i][2]][1]

behandlungen ==
    <<
      <<"Akuter Herzinfarkt", "Sofortige Notfallbehandlung: Aspirin, Nitroglycerin, ggf. Katheterlabor">>,
      <<"Lungenentzündung", "Antibiotika, Sauerstoff bei Bedarf, ausreichend Flüssigkeit">>,
      <<"Virusgrippe", "Ruhe, ausreichend Flüssigkeit, Fiebersenkung, symptomatische Therapie">>,
      <<"Bronchitis", "Bronchodilatatoren, Hustenlöser, evtl. Antibiotika bei bakterieller Infektion">>,
      <<"Pulmonalembolie", "Sofortige Hospitalisierung, Antikoagulantien, Sauerstofftherapie">>,
      <<"Perikarditis", "Entzündungshemmende Medikamente, Ruhe, kardiologische Kontrolle">>,
      <<"Appendizitis", "Chirurgische Konsiliaruntersuchung, ggf. Appendektomie">>,
      <<"Migräne", "Triptane, ruhige Umgebung, ausreichend Flüssigkeit, Ruhe">>,
      <<"RSV-Bronchiolitis", "Symptomatische Therapie, Atemunterstützung, Flüssigkeitszufuhr, Überwachung">>,
      <<"Pseudokrupp", "Corticosteroide, kühle feuchte Luft, Rachensprays, ggf. Adrenalin-Inhalation">>,
      <<"Bronchiolitis", "Symptomatische Therapie, Atemunterstützung, Flüssigkeitszufuhr">>,
      <<"Epiglottitis", "NOTFALL - Sofortige Krankenhauseinweisung, Intubationsbereitschaft, Antibiotika">>,
      <<"Akute Otitis media", "Analgetika, ggf. Antibiotika, Abschwellende Nasentropfen">>,
      <<"Gastroenteritis bei Kindern", "Flüssigkeitsersatz, Elektrolytlösung, leichte Kost">>,
      <<"Virale Atemwegsinfektion", "Symptomatische Therapie, Flüssigkeitszufuhr, Fiebersenkung">>,
      <<"Meningitis", "NOTFALL - Sofortige Krankenhauseinweisung, Antibiotika, Überwachung">>,
      <<"Masern", "Symptomatische Therapie, Isolation, Vitamin A, Flüssigkeitszufuhr">>,
      <<"Asthma-Exazerbation", "Inhalative Beta-2-Mimetika, systemische Steroide, Sauerstoff bei Bedarf">>,
      <<"COPD-Exazerbation", "Bronchodilatatoren, systemische Steroide, Antibiotika bei Infektion">>,
      <<"Entgleister Diabetes", "Flüssigkeits- und Elektrolyt-Ausgleich, Insulin, Ursachensuche">>,
      <<"Bakterielle Infektion", "Breitspektrum-Antibiotika nach Abnahme von Kulturen">>,
      <<"Pyelonephritis", "Antibiotika, ausreichend Flüssigkeit, Fiebersenkung">>,
      <<"Harnwegsinfektion", "Antibiotika, reichlich Flüssigkeit, evtl. Schmerzmittel">>,
      <<"Hyperthyreose", "Thyreostatika, Beta-Blocker bei Tachykardie, endokrinologische Kontrolle">>,
      <<"Depression", "Psychotherapie, ggf. Antidepressiva nach fachärztlicher Beurteilung">>
    >>

codes ==
    <<
      <<"Akuter Herzinfarkt", "I21.9">>,
      <<"Lungenentzündung", "J18.9">>,
      <<"Virusgrippe", "J10.8">>,
      <<"Bronchitis", "J40">>,
      <<"Pulmonalembolie", "I26.9">>,
      <<"Perikarditis", "I30.9">>,
      <<"Appendizitis", "K35.80">>,
      <<"Migräne", "G43.9">>,
      <<"RSV-Bronchiolitis", "J21.0">>,
      <<"Pseudokrupp", "J05.0">>,
      <<"Bronchiolitis", "J21.9">>,
      <<"Epiglottitis", "J05.1">>,
      <<"Akute Otitis media", "H66.9">>,
      <<"Gastroenteritis bei Kindern", "A09">>,
      <<"Virale Atemwegsinfektion", "J06.9">>,
      <<"Meningitis", "G03.9">>,
      <<"Masern", "B05.9">>,
      <<"Asthma-Exazerbation", "J45.901">>,
      <<"COPD-Exazerbation", "J44.1">>,
      <<"Entgleister Diabetes", "E10.9">>,
      <<"Bakterielle Infektion", "A49.9">>,
      <<"Pyelonephritis", "N10">>,
      <<"Harnwegsinfektion", "N39.0">>,
      <<"Hyperthyreose", "E05.9">>,
      <<"Depression", "F32.9">>
    >>

\* behandlung_vorschlagen: <<behandlung, top_diagnose>>
behandlung_vorschlagen(diagnosen) ==
    <<Lookup(behandlungen, MaxKey(diagnosen), "Facharzt konsultieren"), MaxKey(diagnosen)>>

\* abrechnungscode_erzeugen
abrechnungscode_erzeugen(diagnose) == Lookup(codes, diagnose, "Unbekannt")

\* the record an_desci_speichern appends to desci_faelle.jsonl (without its
\* timestamp)
DesciFall(symptome, diagnosen, behandlung) ==
    [symptome |-> symptome, diagnosen |-> diagnosen, behandlung |-> behandlung]

\* sorted(...)[:8]
Top8(d) == SubSeq(SortDesc(d), 1, Min2(8, Len(d)))

\* a merge that ignores the contributions of the rules
MergeRulesNone(diagnosen, zusatz_diagnosen) == diagnosen

\* the merge loop of patient_verarbeiten: max for a known diagnosis
RECURSIVE MergeRules(_, _)
MergeRules(diagnosen, zusatz_diagnosen) ==
    IF Len(zusatz_diagnosen) = 0 THEN diagnosen
    ELSE LET k == Head(zusatz_diagnosen)[1]
             w == Head(zusatz_diagnosen)[2]
         IN  MergeRules(IF Has(diagnosen, k) THEN Put(diagnosen, k, Max2(Get(diagnosen, k), w))
                        ELSE Put(diagnosen, k, w),
                        Tail(zusatz_diagnosen))

(***************************************************************************)
(* hybrid_model.py: fusion                                                 *)
(***************************************************************************)

RECURSIVE Words(_)
WordsFrom(t, w) == <<w>> \o Words(SubSeq(t, Len(w) + 1, Len(t)))

WordsT(t) == IF t = "" THEN <<>> ELSE WordsFrom(t, FirstWord(t))

\* str.split(): the whitespace-separated words
Words(s) == WordsT(LStrip(s))

\* set(list)
ToSet(list) == {list[i] : i \in 1..Len(list)}

MatchScoreOf(tw, dw, bonus) ==
    <<5 * Cardinality(ToSet(tw) \cap ToSet(dw)) + (IF bonus THEN Max2(Len(tw), Len(dw)) ELSE 0),
      5 * Max2(Len(tw), Len(dw))>>

\* the score find_matching_diagnosis gives a candidate, as a fraction
\* <<numerator, denominator>>: common words / longer word count, plus 0.2
\* when one name contains the other
MatchScore(target, diagnosis_lower) ==
    MatchScoreOf(Words(target), Words(diagnosis_lower),
                 Contains(target, diagnosis_lower) \/ Contains(diagnosis_lower, target))

FracGreater(a, b) == a[1] * b[2] > b[1] * a[2]

RECURSIVE BestMatch(_, _, _, _, _)
BestStep(target, d, i, best_match, best_score, score) ==
    IF FracGreater(score, best_score)
    THEN BestMatch(target, d, i + 1, d[i][1], score)
    ELSE BestMatch(target, d, i + 1, best_match, best_score)

\* the partial-match loop: best_match and best_score after the keys from i on
BestMatch(target, d, i, best_match, best_score) ==
    IF i > Len(d) THEN <<best_match, best_score>>
    ELSE BestStep(target, d, i, best_match, best_score, MatchScore(target, Lower(d[i][1])))

AboveQuarter(best) == IF FracGreater(best[2], <<1, 4>>) THEN best[1] ELSE None

FindMatch(target, diagnoses_dict) ==
    IF \E i \in 1..Len(diagnoses_dict) : Lower(diagnoses_dict[i][1]) = target
    THEN diagnoses_dict[CHOOSE i \in 1..Len(diagnoses_dict) :
                           /\ Lower(diagnoses_dict[i][1]) = target
                           /\ \A j \in 1..(i - 1) : Lower(diagnoses_dict[j][1]) # target][1]
    ELSE AboveQuarter(BestMatch(target, diagnoses_dict, 1, None, <<0, 1>>))

\* find_matching_diagnosis: a key of diagnoses_dict or None
find_matching_diagnosis(target_diagnosis, diagnoses_dict) ==
    FindMatch(Lower(target_diagnosis), diagnoses_dict)

\* the empty dict {} as llm_results; a missing "diagnosen" key and an empty
\* mapping both leave the merge loop of enhance_ml_results without iterations
EmptyLlm == [type |-> "dict", diagnosen |-> <<>>, behandlung |-> Absent,
             abrechnungscode |-> Absent, text |-> ""]

\* orig * (1 - llm_weight) + probability * llm_weight with
\* llm_weight = 0.4 + 0.3 * probability / 100
LlmWeight4(probability) == 4000 + (3 * probability) \div 100

Blend(orig_prob, probability) ==
    IF probability >= orig_prob
    THEN orig_prob + MulF(probability - orig_prob, LlmWeight4(probability), 10000)
    ELSE orig_prob - MulF(orig_prob - probability, LlmWeight4(probability), 10000)

\* one iteration of the loop over llm_results["diagnosen"]
MergeLlmStep(d, diagnosis, probability, ml_match) ==
    IF probability <= 0 THEN d
    ELSE IF ml_match # None
    THEN Put(d, ml_match, Blend(Get(d, ml_match), probability))
    ELSE Put(d, diagnosis, Min2(MulF(probability, 7, 10), Pct(40)))

RECURSIVE MergeLlm(_, _)
\* the loop over llm_results["diagnosen"]
MergeLlm(d, llm_diagnoses) ==
    IF Len(llm_diagnoses) = 0 THEN d
    ELSE MergeLlm(MergeLlmStep(d, Head(llm_diagnoses)[1], Head(llm_diagnoses)[2],
                               find_matching_diagnosis(Head(llm_diagnoses)[1], d)),
                  Tail(llm_diagnoses))

RECURSIVE CaseScores(_, _, _)
\* mimic_diagnoses: similarity mass per diagnosis, in first-seen order
CaseScores(diagnoses, similarity, acc) ==
    IF Len(diagnoses) = 0 THEN acc
    ELSE CaseScores(Tail(diagnoses), similarity,
                    Put(acc, Head(diagnoses), GetOr(acc, Head(diagnoses), 0) + similarity))

RECURSIVE MimicDiagnoses(_, _)
MimicDiagnoses(mimic_results, acc) ==
    IF Len(mimic_results) = 0 THEN acc
    ELSE MimicDiagnoses(Tail(mimic_results),
                        CaseScores(Head(mimic_results).diagnoses, Head(mimic_results).similarity_score, acc))

\* one iteration of the loop over the top-3 reference diagnoses
MergeMimicStep(d, diagnosis, score, ml_match) ==
    IF ml_match # None
    THEN (IF score > 500
          THEN Put(d, ml_match, MulF(Get(d, ml_match), 1000 + 2 * score, 1000))
          ELSE Put(d, ml_match, MulF(Get(d, ml_match), 2000 + 3 * score, 2000)))
    ELSE IF score > 1500
    THEN Put(d, diagnosis, Min2(score * 10, Pct(25)))
    ELSE d

RECURSIVE MergeMimic(_, _)
\* the loop over the top-3 reference diagnoses; score is in thousandths
MergeMimic(d, top_mimic_diagnoses) ==
    IF Len(top_mimic_diagnoses) = 0 THEN d
    ELSE MergeMimic(MergeMimicStep(d, Head(top_mimic_diagnoses)[1], Head(top_mimic_diagnoses)[2],
                                   find_matching_diagnosis(Head(top_mimic_diagnoses)[1], d)),
                    Tail(top_mimic_diagnoses))

critical_patterns ==
    <<
      << <<"brustschmerzen", "schwitzen", "übelkeit">>, "Akuter Herzinfarkt", 30 >>,
      << <<"fieber", "husten", "atemnot">>, "Pneumonie", 25 >>,
      << <<"kopfschmerzen", "fieber", "erbrechen">>, "Meningitis", 27 >>,
      << <<"bauchschmerzen", "erbrechen", "appetitlosigkeit">>, "Appendizitis", 22 >>,
      << <<"dyspnoe", "husten", "orthopnoe">>, "Herzinsuffizienz", 23 >>
    >>

PatternFires(symptom_text, j, d) ==
    /\ \A i \in 1..Len(critical_patterns[j][1]) : Contains(critical_patterns[j][1][i], symptom_text)
    /\ Has(d, critical_patterns[j][2])

RECURSIVE CriticalLoop(_, _, _, _)
CriticalStep(d, top, symptom_text, j, target, boosted) ==
    CriticalLoop(Put(d, target, boosted), IF boosted > Pct(50) THEN target ELSE top,
                 symptom_text, j + 1)

\* the loop over critical_patterns: <<diagnosen, top_diagnose>>
CriticalLoop(d, top, symptom_text, j) ==
    IF j > Len(critical_patterns) THEN <<d, top>>
    ELSE IF PatternFires(symptom_text, j, d)
    THEN CriticalStep(d, top, symptom_text, j, critical_patterns[j][2],
                      MulF(Get(d, critical_patterns[j][2]), critical_patterns[j][3], 10))
    ELSE CriticalLoop(d, top, symptom_text, j + 1)

AtLeastTwo(e) == e[2] >= Pct(2)

\* step 5 of enhance_ml_results: normalise, drop, sort
Finalize(d) == SortDesc(SelectSeq(NormalizeMap(d), AtLeastTwo))

\* the confidence tier of step 6
Konfidenz(sorted_diagnoses) ==
    IF /\ sorted_diagnoses[1][2] > Pct(40)
       /\ (Len(sorted_diagnoses) < 2 \/ sorted_diagnoses[1][2] - sorted_diagnoses[2][2] > Pct(15))
    THEN "hoch" ELSE "mittel"

is_allergy_case(symptom_text) ==
    /\ \E t \in {"ausschlag", "quaddel", "urtik", "juck"} : Contains(t, symptom_text)
    /\ \/ \E food \in {"garnele", "nuss", "fisch", "milch", "ei", "verzehr", "lebensmittel"} :
             Contains(food, symptom_text)
       \/ Contains("dyspnoe", symptom_text)

is_uti_case(symptom_text) ==
    /\ \E term \in {"dysurie", "brennen beim wasserlassen", "pollakisurie"} : Contains(term, symptom_text)
    /\ ~Contains("brustschmerz", symptom_text)
    /\ ~Contains("atemnot", symptom_text)

is_stroke_case(symptom_text) ==
    /\ (Contains("lähmung", symptom_text) \/ Contains("halbseitige schwäche", symptom_text))
    /\ (Contains("sprachstörung", symptom_text) \/ Contains("aphasie", symptom_text))

\* "key in llm_results and llm_results[key]" raises TypeError when
\* llm_results is a str containing key
LlmKeyRaises(llm_results, key) == llm_results.type = "str" /\ Contains(key, llm_results.text)

AllergySevere ==
    [diagnosen |-> << <<"Anaphylaktische Reaktion", Pct(45)>>, <<"Nahrungsmittelallergie", Pct(35)>>,
                      <<"Urtikaria", Pct(15)>>, <<"Angioödem", Pct(5)>> >>,
     top_diagnose |-> "Anaphylaktische Reaktion",
     behandlung |-> "NOTFALL: Sofortige Gabe von Adrenalin, Antihistaminika, Glucocorticoide. Überwachung der Vitalparameter. Ggf. Einweisung in Notaufnahme. Nach Stabilisierung Allergenvermeidung und Patientenschulung.",
     abrechnungscode |-> "T78.2"]

AllergyModerate ==
    [diagnosen |-> << <<"Urtikaria", Pct(40)>>, <<"Nahrungsmittelallergie", Pct(35)>>,
                      <<"Allergische Reaktion", Pct(20)>>, <<"Angioödem", Pct(5)>> >>,
     top_diagnose |-> "Urtikaria",
     behandlung |-> "Antihistaminika (z.B. Cetirizin), ggf. kurzfristig Glucocorticoide. Identifikation und Vermeidung des auslösenden Allergens. Bei wiederholten Reaktionen allergologische Abklärung.",
     abrechnungscode |-> "L50.0"]

UtiComplicated ==
    [diagnosen |-> << <<"Pyelonephritis", Pct(60)>>, <<"Harnwegsinfektion", Pct(25)>>,
                      <<"Zystitis", Pct(15)>> >>,
     top_diagnose |-> "Pyelonephritis",
     behandlung |-> "Antibiotika (z.B. Ciprofloxacin, Cefuroxim) für 7-14 Tage, reichlich Flüssigkeitszufuhr, Analgetika bei Bedarf. Bei schweren Fällen stationäre Aufnahme erwägen.",
     abrechnungscode |-> "N10"]

UtiSimple ==
    [diagnosen |-> << <<"Harnwegsinfektion", Pct(60)>>, <<"Zystitis", Pct(35)>>,
                      <<"Urethritis", Pct(5)>> >>,
     top_diagnose |-> "Harnwegsinfektion",
     behandlung |-> "Antibiotika (z.B. Nitrofurantoin, Fosfomycin), reichlich Flüssigkeitszufuhr, ggf. Schmerzmittel. Bei häufiger Wiederkehr erweiterte Diagnostik.",
     abrechnungscode |-> "N30.0"]

StrokeBehandlung ==
    "NOTFALL: Sofortiger Transport ins Krankenhaus mit Stroke Unit. Zeit ist Hirn! Bildgebung (CT/MRT), evtl. Thrombolyse oder mechanische Thrombektomie."

\* which return statement of enhance_ml_results a call reaches, given the
\* score map after the two leading overrides
EnhancePath(d, symptom_text) ==
    IF is_allergy_case(symptom_text) THEN "allergy"
    ELSE IF is_uti_case(symptom_text) THEN "uti"
    ELSE IF is_stroke_case(symptom_text) /\ Has(d, "Schlaganfall") THEN "stroke"
    ELSE "generic"

\* the two leading overrides: a constellation doubles its diagnosis in place
Override(d, cond, k) == IF cond /\ Has(d, k) THEN Put(d, k, MulF(Get(d, k), 2, 1)) ELSE d

OverrideTop(d, cond, k, top) == IF cond /\ Has(d, k) THEN k ELSE top

IsInfarktText(symptom_text) ==
    /\ Contains("brustschmerzen", symptom_text) /\ Contains("ausstrahlung", symptom_text)
    /\ Contains("arm", symptom_text)

IsMeningitisText(symptom_text) ==
    /\ Contains("fieber", symptom_text) /\ Contains("nackensteifigkeit", symptom_text)
    /\ Contains("kopfschmerzen", symptom_text)

\* a special-case return: the fixed table f replaces the scores of the copy
FixedResult(ml_results, d2, f, path) ==
    [raised |-> FALSE, path |-> path,
     result |-> [ml_results EXCEPT !.diagnosen = f.diagnosen,
                                   !.top_diagnose = f.top_diagnose,
                                   !.behandlung = f.behandlung,
                                   !.abrechnungscode = f.abrechnungscode],
     ml_after |-> [ml_results EXCEPT !.diagnosen = d2]]

AllergyTable(symptom_text) ==
    IF Contains("dyspnoe", symptom_text) \/ Contains("atem", symptom_text)
    THEN AllergySevere ELSE AllergyModerate

UtiTable(symptom_text, vitals_string) ==
    IF /\ \/ Contains("fieber", symptom_text)
          \/ (vitals_string # "" /\ AnyIn({"T:38", "T:39", "T:40"}, vitals_string))
       /\ AnyIn({"flanke", "rücken", "niere", "seitenschmerz"}, symptom_text)
    THEN UtiComplicated ELSE UtiSimple

NotSchlaganfall(k) == k # "Schlaganfall"

\* the stroke return: the shared score map is changed in place
StrokeScores(d2) ==
    ScaleWhere(Put(d2, "Schlaganfall", Max2(Pct(85), MulF(Get(d2, "Schlaganfall"), 3, 1))),
               NotSchlaganfall, 3, 10)

StrokeResult(ml_results, dStroke) ==
    [raised |-> FALSE, path |-> "stroke",
     result |-> [ml_results EXCEPT !.diagnosen = dStroke,
                                   !.top_diagnose = "Schlaganfall",
                                   !.behandlung = StrokeBehandlung,
                                   !.abrechnungscode = "I63.9"],
     ml_after |-> [ml_results EXCEPT !.diagnosen = dStroke]]

\* the generic merge, steps 2 to 4
LlmStep(d, llm_results) ==
    IF llm_results.type = "dict" THEN MergeLlm(d, llm_results.diagnosen) ELSE d

Top3(mimic_diagnoses) == SubSeq(SortDesc(mimic_diagnoses), 1, Min2(3, Len(mimic_diagnoses)))

MimicStep(d, mimic_results) ==
    IF Len(mimic_results) > 0 THEN MergeMimic(d, Top3(MimicDiagnoses(mimic_results, <<>>))) ELSE d

IsAdultDiagnosis(k) == k \in {"Myokardinfarkt", "Akuter Herzinfarkt", "Angina pectoris"}

AgeStep(d, alter) == ScaleIf(IstKind(alter), d, IsAdultDiagnosis, 1, 20)

\* llm_results[key] is present and truthy
LlmText(llm_results, v) == llm_results.type = "dict" /\ v # Absent /\ v # ""

\* steps 5 and 6 for the normalised map d7 and the final map d8
GenericFinal(ml_results, llm_results, d7, d8, top) ==
    IF /\ Len(d8) > 0
       /\ (LlmKeyRaises(llm_results, "behandlung") \/ LlmKeyRaises(llm_results, "abrechnungscode"))
    THEN [raised |-> TRUE, path |-> "fallback", result |-> ml_results,
          ml_after |-> [ml_results EXCEPT !.diagnosen = d7]]
    ELSE [raised |-> FALSE, path |-> "generic",
          result |->
            [ml_results EXCEPT
               !.diagnosen = d8,
               !.top_diagnose = IF Len(d8) > 0 THEN d8[1][1] ELSE top,
               !.diagnose_konfidenz = IF Len(d8) > 0 THEN Konfidenz(d8) ELSE @,
               !.behandlung = IF Len(d8) > 0 /\ LlmText(llm_results, llm_results.behandlung)
                              THEN llm_results.behandlung ELSE @,
               !.abrechnungscode = IF Len(d8) > 0 /\ LlmText(llm_results, llm_results.abrechnungscode)
                                   THEN llm_results.abrechnungscode ELSE @],
          ml_after |-> [ml_results EXCEPT !.diagnosen = d7]]

GenericAfter(ml_results, llm_results, crit) ==
    GenericFinal(ml_results, llm_results, NormalizeMap(crit[1]), Finalize(crit[1]), crit[2])

GenericResult(ml_results, llm_results, mimic_results, symptom_text, alter, d2, top2) ==
    IF LlmKeyRaises(llm_results, "diagnosen")
    THEN [raised |-> TRUE, path |-> "fallback", result |-> ml_results,
          ml_after |-> [ml_results EXCEPT !.diagnosen = d2]]
    ELSE GenericAfter(ml_results, llm_results,
                      CriticalLoop(AgeStep(MimicStep(LlmStep(d2, llm_results), mimic_results), alter),
                                   top2, symptom_text, 1))

\* enhance_ml_results after the two overrides gave the map d2 and the top top2
EnhanceFrom(ml_results, llm_results, mimic_results, symptom_text, vitals_string, alter, d2, top2) ==
    CASE EnhancePath(d2, symptom_text) = "allergy" ->
            FixedResult(ml_results, d2, AllergyTable(symptom_text), "allergy")
      [] EnhancePath(d2, symptom_text) = "uti" ->
            FixedResult(ml_results, d2, UtiTable(symptom_text, vitals_string), "uti")
      [] EnhancePath(d2, symptom_text) = "stroke" ->
            StrokeResult(ml_results, StrokeScores(d2))
      [] OTHER ->
            GenericResult(ml_results, llm_results, mimic_results, symptom_text, alter, d2, top2)

EnhanceOn(ml_results, llm_results, mimic_results, symptom_text, vitals_string, alter, d1, top1) ==
    EnhanceFrom(ml_results, llm_results, mimic_results, symptom_text, vitals_string, alter,
                Override(d1, IsMeningitisText(symptom_text), "Meningitis"),
                OverrideTop(d1, IsMeningitisText(symptom_text), "Meningitis", top1))

EnhanceText(ml_results, llm_results, mimic_results, symptom_text, vitals_string, alter) ==
    EnhanceOn(ml_results, llm_results, mimic_results, symptom_text, vitals_string, alter,
              Override(ml_results.diagnosen, IsInfarktText(symptom_text), "Akuter Herzinfarkt"),
              OverrideTop(ml_results.diagnosen, IsInfarktText(symptom_text), "Akuter Herzinfarkt",
                          ml_results.top_diagnose))

\* enhance_ml_results.  raised: an exception left the function; result: the
\* returned dict; ml_after: the caller's ml_results object afterwards (the
\* copy is shallow, so the nested score map is shared until it is rebound);
\* path: the return statement reached, "fallback" for the except clause of
\* diagnose
enhance_ml_results(ml_results, llm_results, mimic_results, symptome, vitals_string, alter, zusatz_info) ==
    EnhanceText(ml_results, llm_results, mimic_results,
                Lower(symptome) \o " " \o Lower(zusatz_info), vitals_string, alter)

(***************************************************************************)
(* mimic_integration.py: reference-case lookup                             *)
(***************************************************************************)

\* MIMICIntegration.__init__
MimicNew == [is_initialized |-> FALSE, patients_df |-> None, diagnoses_df |-> None,
             vitals_df |-> None, labs_df |-> None]

\* initialize_database for the three states the data directory can be in:
\* "absent" (a file is missing: _setup_mock_data fills the tables with random
\* cases), "present" (the four CSV files load), "corrupt" (read_csv raises and
\* the method returns False, leaving what was assigned before the failure —
\* here the first table is the one that fails)
initialize_database(m, files) ==
    IF m.is_initialized THEN m
    ELSE IF files = "absent"
    THEN [is_initialized |-> TRUE, patients_df |-> "mock", diagnoses_df |-> "mock",
          vitals_df |-> "mock", labs_df |-> "mock"]
    ELSE IF files = "present"
    THEN [is_initialized |-> TRUE, patients_df |-> "files", diagnoses_df |-> "files",
          vitals_df |-> "files", labs_df |-> "files"]
    ELSE m

\* the laborwerte dict that diagnose extracts for the lookup
DiagnoseLaborwerte(zusatz_info) == SectionDict("laborwerte:", zusatz_info, FALSE)

\* _extract_features raises ValueError: float() of a reading that is no number
extract_features_raises(vitals, laborwerte) ==
    LET vitals_dict == IF vitals = "" THEN <<>> ELSE ParsePairs(Split(vitals, ","), <<>>, FALSE)
        Bad(d, k) == Has(d, k) /\ ~FloatOk(Get(d, k))
    IN  \/ Bad(vitals_dict, "HR") \/ Bad(vitals_dict, "T") \/ Bad(vitals_dict, "SpO2")
        \/ /\ Len(laborwerte) > 0
           /\ \E k \in {"leukozyten", "haemoglobin", "thrombozyten", "crp", "kreatinin", "glucose"} :
                 Bad(laborwerte, k)

\* The nearest-neighbour search over the loaded tables is numeric library
\* code; its result is one of these lists of similar cases (similarity_score
\* in thousandths).  The diagnosis names are those of _setup_mock_data.
MimicCaseLists ==
    { << [similarity_score |-> 800, diagnoses |-> <<"Pneumonie", "Myokardinfarkt">>],
         [similarity_score |-> 700, diagnoses |-> <<"Pneumonie", "COPD">>],
         [similarity_score |-> 500, diagnoses |-> <<"Appendizitis">>],
         [similarity_score |-> 400, diagnoses |-> <<"Harnwegsinfektion", "Brustschmerzen">>],
         [similarity_score |-> 300, diagnoses |-> <<"Diabetes mellitus Typ 2">>] >>,
      << [similarity_score |-> 600, diagnoses |-> <<"Myokardinfarkt", "Brustschmerzen", "Myokardinfarkt">>],
         [similarity_score |-> 500, diagnoses |-> <<"Myokardinfarkt">>],
         [similarity_score |-> 450, diagnoses |-> <<"COPD", "Appendizitis">>],
         [similarity_score |-> 400, diagnoses |-> <<"Harnwegsinfektion">>],
         [similarity_score |-> 350, diagnoses |-> <<"Myokardinfarkt", "Pneumonie">>] >> }

(***************************************************************************)
(* hybrid_model.py: narrative providers                                    *)
(***************************************************************************)

\* LLM_CONFIGS in dict order
Providers == <<"openai", "anthropic", "cohere">>

\* the sets of providers that have an API key in the environment
KeySets == {{}, {"openai"}, {"openai", "anthropic"}}

\* get_available_llm_provider: the first provider with a key, or None
get_available_llm_provider(keys) ==
    IF \E i \in 1..Len(Providers) : Providers[i] \in keys
    THEN Providers[CHOOSE i \in 1..Len(Providers) :
                      /\ Providers[i] \in keys
                      /\ \A j \in 1..(i - 1) : Providers[j] \notin keys]
    ELSE None

\* a fallback loop that starts again at the first provider on every pass
NextFallbackRestart(provider, keys, idx) ==
    LET cand == {i \in 1..Len(Providers) : Providers[i] # provider /\ Providers[i] \in keys}
    IN  IF cand = {} THEN 0 ELSE CHOOSE i \in cand : \A j \in cand : i <= j

\* the position from idx on of the next fallback candidate of the loop
\* "for fallback_provider ... if fallback_provider != provider and api_key",
\* 0 when the loop is exhausted
NextFallback(provider, keys, idx) ==
    LET cand == {i \in idx..Len(Providers) : Providers[i] # provider /\ Providers[i] \in keys}
    IN  IF cand = {} THEN 0 ELSE CHOOSE i \in cand : \A j \in cand : i <= j

\* the value call_llm_service returns when every attempt failed
LlmError ==
    [form |-> "error", diagnosen |-> <<>>, behandlung |-> Absent, abrechnungscode |-> Absent,
     text |-> ""]

\* What a provider call that does not raise returns: a JSON object with
\* diagnoses, treatment and code; a JSON object with diagnoses only; free text
\* with one recognisable diagnosis line; free text without any recognisable
\* section; a JSON code block holding a string; no content (None).
LlmReplies ==
    { [form |-> "json_object",
       diagnosen |-> << <<"Pneumonie", Pct(65)>>, <<"Bronchitis", Pct(20)>> >>,
       behandlung |-> "Antibiotische Therapie nach Leitlinie", abrechnungscode |-> "J18.9", text |-> ""],
      [form |-> "json_object",
       diagnosen |-> << <<"Schlaganfall", Pct(80)>> >>,
       behandlung |-> Absent, abrechnungscode |-> Absent, text |-> ""],
      [form |-> "text",
       diagnosen |-> << <<"Akuter Herzinfarkt", Pct(70)>> >>,
       behandlung |-> "", abrechnungscode |-> "", text |-> ""],
      [form |-> "text", diagnosen |-> <<>>, behandlung |-> "", abrechnungscode |-> "", text |-> ""],
      [form |-> "json_string", diagnosen |-> <<>>, behandlung |-> Absent,
       abrechnungscode |-> Absent, text |-> "behandlung folgt"],
      [form |-> "none", diagnosen |-> <<>>, behandlung |-> Absent,
       abrechnungscode |-> Absent, text |-> ""] }

\* parse_llm_response followed by the error checks of diagnose: the
\* llm_results handed to the fusion step.  A JSON object or extracted text
\* gives a dict; a JSON string is returned as it is unless it contains
\* "error"; None makes the regular expressions raise, which is reported as an
\* error dict and replaced by {}, as is the error dict of call_llm_service.
ParsedLlm(reply) ==
    IF reply.form \in {"json_object", "text"}
    THEN [type |-> "dict", diagnosen |-> reply.diagnosen, behandlung |-> reply.behandlung,
          abrechnungscode |-> reply.abrechnungscode, text |-> ""]
    ELSE IF reply.form = "json_string" /\ ~Contains("error", reply.text)
    THEN [type |-> "str", diagnosen |-> <<>>, behandlung |-> Absent,
          abrechnungscode |-> Absent, text |-> reply.text]
    ELSE EmptyLlm

\* the source tag diagnose attaches to a fused result
SourceTag(provider, mimic_results) ==
    IF provider = None /\ Len(mimic_results) = 0 THEN "ml_model"
    ELSE IF provider = None THEN "ml_mimic"
    ELSE IF Len(mimic_results) = 0 THEN "ml_llm"
    ELSE "hybrid"

\* a diagnostizieren without the test for an empty list of symptom ids
diagnostizieren_fehler_never(symptom_ids) == FALSE

\* diagnostizieren refuses an empty list of symptom ids
diagnostizieren_fehler(symptom_ids) == Len(symptom_ids) = 0

\* The classifier (a random forest trained on patient_cases.csv) is a black
\* box: predict_proba yields one of these distributions, in percent with one
\* decimal, classes in sorted order, zero classes omitted.
MlOutputs ==
    { << <<"Akuter Herzinfarkt", Pct(60)>>, <<"Lungenentzündung", Pct(30)>>, <<"Virusgrippe", Pct(10)>> >>,
      << <<"Lungenentzündung", Pct(55)>>, <<"Pneumonie", Pct(45)>> >>,
      << <<"Meningitis", Pct(40)>>, <<"Migräne", Pct(35)>>, <<"Schlaganfall", Pct(25)>> >> }

(***************************************************************************)
(* One diagnosis request: diagnose and the functions it calls              *)
(***************************************************************************)

\* the requests: symptom text, vitals text, age group, additional information
Request(symptome, vitals_string, alter, zusatz_info) ==
    [symptome |-> symptome, vitals_string |-> vitals_string, alter |-> alter,
     zusatz_info |-> zusatz_info]

Requests ==
    { Request("", "", "Erwachsener", ""),
      Request("   ", "HR:80", "Kind", ""),
      Request("xyzzy123", "HR:110,T:36.7", "Erwachsener", ""),
      Request("Brustschmerzen, Kurzatmigkeit", "HR:abc", "Erwachsener", ""),
      Request("Brustschmerzen, Kurzatmigkeit", "HR:110,T:36.7", "Erwachsener", ""),
      Request("Lähmung, Sprachstörung", "", "Erwachsener", ""),
      Request("Ausschlag, Juckreiz, Dyspnoe", "", "Kind", ""),
      Request("Dysurie, Fieber", "", "Erwachsener", ""),
      Request("Fieber, Husten, Atemnot", "", "Erwachsener", ""),
      Request("Fieber, Husten, Atemnot", "HR:abc", "Erwachsener", ""),
      Request("Fieber, Husten, Atemnot", "HR:110,T:36.7", "Kind", "Laborwerte: CRP:"),
      Request("xyzzy123, Fieber", "T:39.2", "Erwachsener", "Vorerkrankungen: Diabetes") }

\* the recursion limit of the interpreter, in frames of call_llm_service
MaxDepth == 3

VARIABLES
    pc,             \* position of the request inside diagnose
    req,            \* the arguments of diagnose
    keys,           \* providers with an API key (LLM_CONFIGS)
    failing,        \* providers whose API call raises
    files,          \* state of the reference-case data directory
    knn_raises,     \* the neighbour search of get_similar_cases raises
    symptom_ids,    \* patient_verarbeiten: matched ids
    unmatched,      \* patient_verarbeiten: unmatched terms
    vitals,         \* patient_verarbeiten: parsed vitals
    warnings,       \* patient_verarbeiten: vitals warnings
    diagnosen,      \* patient_verarbeiten: the running score map
    ml_results,     \* the dict patient_verarbeiten returned
    desci,          \* desci_faelle.jsonl: the records appended
    mimic,          \* the module-level MIMICIntegration object
    mimic_results,  \* diagnose: similar cases
    provider,       \* diagnose: the provider chosen for the request
    stack,          \* frames of call_llm_service, innermost last
    llm_calls,      \* provider API calls made for the request
    llm_response,   \* what call_llm_service returned
    llm_results,    \* diagnose: parsed narrative result
    ran,            \* the stages that have run
    outcome         \* what diagnose gave its caller

vars == <<pc, req, keys, failing, files, knn_raises, symptom_ids, unmatched, vitals, warnings,
          diagnosen, ml_results, desci, mimic, mimic_results, provider, stack, llm_calls,
          llm_response, llm_results, ran, outcome>>

coreVars == <<symptom_ids, unmatched, vitals, warnings, diagnosen, ml_results, desci>>

mimicVars == <<mimic, mimic_results>>

llmVars == <<provider, stack, llm_calls, llm_response, llm_results>>

envVars == <<req, keys, failing, files, knn_raises>>

NoOutcome == [kind |-> "none", path |-> "none"]

\* the locals of a request before diagnose assigns them
NoMlResults == [unset |-> TRUE]

NoResponse ==
    [form |-> "unset", diagnosen |-> <<>>, behandlung |-> Absent, abrechnungscode |-> Absent,
     text |-> ""]

\* everything but the request and its environment, as module import leaves it
InitLocals ==
    /\ symptom_ids = <<>>
    /\ unmatched = <<>>
    /\ vitals = <<>>
    /\ warnings = <<>>
    /\ diagnosen = <<>>
    /\ ml_results = NoMlResults
    /\ desci = <<>>
    /\ mimic = MimicNew
    /\ mimic_results = <<>>
    /\ provider = None
    /\ stack = <<>>
    /\ llm_calls = 0
    /\ llm_response = NoResponse
    /\ llm_results = EmptyLlm
    /\ ran = {}
    /\ outcome = NoOutcome

Init ==
    /\ pc = "match"
    /\ req \in Requests
    /\ keys \in KeySets
    /\ failing \in SUBSET keys
    /\ files \in {"absent", "present", "corrupt"}
    /\ knn_raises \in {FALSE, files = "present"}
    /\ InitLocals

\* patient_verarbeiten, lines 657-661: match the symptoms and score them; an
\* empty id list makes diagnostizieren report an error, which is returned
Match ==
    /\ pc = "match"
    /\ symptom_ids' = symptome_abgleichen(req.symptome)[1]
    /\ unmatched' = symptome_abgleichen(req.symptome)[2]
    /\ IF diagnostizieren_fehler(symptom_ids')
       THEN /\ ml_results' = [fehler |-> "Keine gültigen Symptome erkannt", nicht_erkannt |-> unmatched']
            /\ diagnosen' = diagnosen
            /\ pc' = "ml_error"
       ELSE /\ diagnosen' \in MlOutputs
            /\ ml_results' = ml_results
            /\ pc' = "vitals"
    /\ ran' = ran \cup {"MATCH"}
    /\ UNCHANGED <<envVars, vitals, warnings, desci, mimicVars, llmVars, outcome>>

\* patient_verarbeiten, lines 664-665
ParseVitals ==
    /\ pc = "vitals"
    /\ vitals' = parse_vitals(req.vitals_string)
    /\ warnings' = check_vitals(vitals', req.alter)
    /\ pc' = "rules"
    /\ ran' = ran \cup {"VITALS_PARSE"}
    /\ UNCHANGED <<envVars, symptom_ids, unmatched, diagnosen, ml_results, desci, mimicVars,
                   llmVars, outcome>>

\* patient_verarbeiten, lines 668-675: the rule engine and the merge; an
\* exception of the rule engine leaves patient_verarbeiten and diagnose
Rules ==
    /\ pc = "rules"
    /\ ran' = ran \cup {"RULES"}
    /\ IF apply_medical_rules_raises(req.symptome, vitals, req.alter, req.zusatz_info)
       THEN /\ outcome' = [kind |-> "raise", path |-> "rules"]
            /\ pc' = "done"
            /\ diagnosen' = diagnosen
       ELSE /\ diagnosen' = MergeRules(diagnosen,
                               apply_medical_rules(req.symptome, vitals, req.alter, req.zusatz_info))
            /\ pc' = "adjust"
            /\ outcome' = outcome
    /\ UNCHANGED <<envVars, symptom_ids, unmatched, vitals, warnings, ml_results, desci, mimicVars,
                   llmVars>>

\* patient_verarbeiten, line 678
VitalsAdjust ==
    /\ pc = "adjust"
    /\ diagnosen' = adjust_diagnosis_with_vitals(diagnosen, vitals, req.alter)
    /\ pc' = "filter"
    /\ ran' = ran \cup {"VITALS_ADJUST"}
    /\ UNCHANGED <<envVars, symptom_ids, unmatched, vitals, warnings, ml_results, desci, mimicVars,
                   llmVars, outcome>>

\* patient_verarbeiten, lines 679-682: the filter is called without the
\* vitals, then the eight best entries are kept
Filter ==
    /\ pc = "filter"
    /\ diagnosen' = Top8(filter_unlikely_diagnoses(diagnosen, req.symptome, req.alter, ""))
    /\ pc' = "audit"
    /\ ran' = ran \cup {"FILTER"}
    /\ UNCHANGED <<envVars, symptom_ids, unmatched, vitals, warnings, ml_results, desci, mimicVars,
                   llmVars, outcome>>

\* the dict patient_verarbeiten returns (nicht_erkannt: the empty list stands
\* for None; diagnose_konfidenz: the key is set by the fusion only)
MlResults(diagnosen_, behandlung, top, unmatched_, vitals_, warnings_, alter) ==
    [diagnosen |-> diagnosen_,
     behandlung |-> behandlung,
     abrechnungscode |-> abrechnungscode_erzeugen(top),
     nicht_erkannt |-> unmatched_,
     vitals |-> vitals_,
     vital_warnings |-> warnings_,
     top_diagnose |-> top,
     alter |-> alter,
     diagnose_konfidenz |-> Absent]

\* patient_verarbeiten, lines 684-698: treatment, billing code, the audit
\* record, and the returned dict
Audit ==
    /\ pc = "audit"
    /\ desci' = Append(desci, DesciFall(Split(req.symptome, ","), diagnosen,
                                        behandlung_vorschlagen(diagnosen)[1]))
    /\ ml_results' = MlResults(diagnosen, behandlung_vorschlagen(diagnosen)[1],
                               behandlung_vorschlagen(diagnosen)[2], unmatched, vitals, warnings,
                               req.alter)
    /\ pc' = "similarity"
    /\ ran' = ran \cup {"AUDIT"}
    /\ UNCHANGED <<envVars, symptom_ids, unmatched, vitals, warnings, diagnosen, mimicVars, llmVars,
                   outcome>>

\* diagnose, lines 774-776: the error of the ML stage is returned at once
ErrorReturn ==
    /\ pc = "ml_error"
    /\ outcome' = [kind |-> "return", path |-> "error", result |-> ml_results, source |-> "ml_model"]
    /\ pc' = "done"
    /\ UNCHANGED <<envVars, coreVars, mimicVars, llmVars, ran>>

\* get_similar_cases returns [] before it searches: the database could not be
\* initialised, or _extract_features raised
LookupEmpty(m, vitals_string, zusatz_info) ==
    \/ ~m.is_initialized
    \/ extract_features_raises(vitals_string, DiagnoseLaborwerte(zusatz_info))

\* diagnose, lines 778-808 with get_similar_cases, lines 175-180 and 270-272:
\* the lookup initialises the database on first use and gives up with []
SimilarityEmpty ==
    /\ pc = "similarity"
    /\ mimic' = initialize_database(mimic, files)
    /\ LookupEmpty(mimic', req.vitals_string, req.zusatz_info)
    /\ mimic_results' = <<>>
    /\ pc' = "llm"
    /\ ran' = ran \cup {"SIMILARITY"}
    /\ UNCHANGED <<envVars, coreVars, llmVars, outcome>>

\* get_similar_cases, lines 182-268: the nearest cases of the loaded tables
SimilarityFound ==
    /\ pc = "similarity"
    /\ mimic' = initialize_database(mimic, files)
    /\ ~LookupEmpty(mimic', req.vitals_string, req.zusatz_info)
    /\ ~knn_raises
    /\ mimic_results' \in MimicCaseLists
    /\ pc' = "llm"
    /\ ran' = ran \cup {"SIMILARITY"}
    /\ UNCHANGED <<envVars, coreVars, llmVars, outcome>>

\* get_similar_cases, lines 270-272: the neighbour search raises
SimilarityFails ==
    /\ pc = "similarity"
    /\ mimic' = initialize_database(mimic, files)
    /\ ~LookupEmpty(mimic', req.vitals_string, req.zusatz_info)
    /\ knn_raises
    /\ mimic_results' = <<>>
    /\ pc' = "llm"
    /\ ran' = ran \cup {"SIMILARITY"}
    /\ UNCHANGED <<envVars, coreVars, llmVars, outcome>>

\* diagnose, lines 811-824 and 843-844: choose the provider; without one the
\* narrative stage is skipped
LlmStart ==
    /\ pc = "llm"
    /\ provider' = get_available_llm_provider(keys)
    /\ IF provider' = None
       THEN /\ pc' = "enhance"
            /\ stack' = stack
            /\ ran' = ran
       ELSE /\ pc' = "llm_call"
            /\ stack' = <<[provider |-> provider', phase |-> "try", idx |-> 1]>>
            /\ ran' = ran \cup {"NARRATIVE"}
    /\ UNCHANGED <<envVars, coreVars, mimicVars, llm_calls, llm_response, llm_results, outcome>>

\* the innermost frame
Top(s) == s[Len(s)]

\* call_llm_service, lines 103-109: the provider answers; every caller
\* returns the callee's value, so the answer reaches diagnose
LlmCallOk ==
    /\ pc = "llm_call"
    /\ Len(stack) > 0 /\ Top(stack).phase = "try"
    /\ Top(stack).provider \notin failing
    /\ llm_calls' = llm_calls + 1
    /\ llm_response' \in LlmReplies
    /\ stack' = <<>>
    /\ pc' = "llm_parse"
    /\ UNCHANGED <<envVars, coreVars, mimicVars, provider, llm_results, ran, outcome>>

\* call_llm_service, lines 103-116: the provider call raises
LlmCallFails ==
    /\ pc = "llm_call"
    /\ Len(stack) > 0 /\ Top(stack).phase = "try"
    /\ Top(stack).provider \in failing
    /\ llm_calls' = llm_calls + 1
    /\ stack' = [stack EXCEPT ![Len(stack)].phase = "fallback"]
    /\ UNCHANGED <<envVars, coreVars, mimicVars, provider, llm_response, llm_results, ran, outcome,
                   pc>>

\* call_llm_service, lines 118-122: the fallback loop calls call_llm_service
\* again for the next other provider that has a key
LlmFallbackCall ==
    /\ pc = "llm_call"
    /\ Len(stack) > 0 /\ Top(stack).phase = "fallback"
    /\ NextFallback(Top(stack).provider, keys, Top(stack).idx) # 0
    /\ Len(stack) < MaxDepth
    /\ stack' = Append([stack EXCEPT ![Len(stack)].idx =
                            NextFallback(Top(stack).provider, keys, Top(stack).idx) + 1],
                       [provider |-> Providers[NextFallback(Top(stack).provider, keys, Top(stack).idx)],
                        phase |-> "try", idx |-> 1])
    /\ UNCHANGED <<envVars, coreVars, mimicVars, provider, llm_calls, llm_response, llm_results, ran,
                   outcome, pc>>

\* call_llm_service, lines 123-124: at the recursion limit the recursive call
\* raises RecursionError, which the loop logs before it goes on
LlmFallbackOverflow ==
    /\ pc = "llm_call"
    /\ Len(stack) > 0 /\ Top(stack).phase = "fallback"
    /\ NextFallback(Top(stack).provider, keys, Top(stack).idx) # 0
    /\ Len(stack) >= MaxDepth
    /\ stack' = [stack EXCEPT ![Len(stack)].idx =
                    NextFallback(Top(stack).provider, keys, Top(stack).idx) + 1]
    /\ UNCHANGED <<envVars, coreVars, mimicVars, provider, llm_calls, llm_response, llm_results, ran,
                   outcome, pc>>

\* call_llm_service, line 126: the loop is exhausted and the error dict is
\* returned, through every caller, to diagnose
LlmGiveUp ==
    /\ pc = "llm_call"
    /\ Len(stack) > 0 /\ Top(stack).phase = "fallback"
    /\ NextFallback(Top(stack).provider, keys, Top(stack).idx) = 0
    /\ llm_response' = LlmError
    /\ stack' = <<>>
    /\ pc' = "llm_parse"
    /\ UNCHANGED <<envVars, coreVars, mimicVars, provider, llm_calls, llm_results, ran, outcome>>

\* diagnose, lines 826-842: an error dict gives {}, anything else is parsed
LlmParse ==
    /\ pc = "llm_parse"
    /\ llm_results' = ParsedLlm(llm_response)
    /\ pc' = "enhance"
    /\ UNCHANGED <<envVars, coreVars, mimicVars, provider, stack, llm_calls, llm_response, ran,
                   outcome>>

\* what diagnose returns after the fusion e: the fused result with its source
\* tag, or, when the fusion raised, the ml_results object as the fusion left it
DiagnoseReturn(e, provider_, mimic_results_) ==
    IF e.raised
    THEN [kind |-> "return", path |-> e.path, result |-> e.ml_after, source |-> "ml_model"]
    ELSE [kind |-> "return", path |-> e.path, result |-> e.result,
          source |-> SourceTag(provider_, mimic_results_)]

\* the fusion of the request in its present state
Fusion ==
    enhance_ml_results(ml_results, llm_results, mimic_results, req.symptome, req.vitals_string,
                       req.alter, req.zusatz_info)

\* diagnose, lines 846-876: fuse and return
Enhance ==
    /\ pc = "enhance"
    /\ ml_results' = Fusion.ml_after
    /\ outcome' = DiagnoseReturn(Fusion, provider, mimic_results)
    /\ pc' = "done"
    /\ ran' = ran \cup {"MERGE"}
    /\ UNCHANGED <<envVars, symptom_ids, unmatched, vitals, warnings, diagnosen, desci, mimicVars,
                   llmVars>>

Next ==
    \/ Match \/ ParseVitals \/ Rules \/ VitalsAdjust \/ Filter \/ Audit \/ ErrorReturn
    \/ SimilarityEmpty \/ SimilarityFound \/ SimilarityFails
    \/ LlmStart \/ LlmCallOk \/ LlmCallFails \/ LlmFallbackCall \/ LlmFallbackOverflow
    \/ LlmGiveUp \/ LlmParse \/ Enhance

Spec == Init /\ [][Next]_vars

(***************************************************************************)
(* The final step of the fusion on its own                                 *)
(***************************************************************************)

\* the largest number of entries of a map handed to the step
MaxEntries == 3

FinalizeNames == <<"Akuter Herzinfarkt", "Lungenentzündung", "Virusgrippe", "Bronchitis">>

\* scores before normalisation: 1.5, 2, 30, 98 and 98.5 points
FinalizeScores == {Tenths(15), Pct(2), Pct(30), Pct(98), Tenths(985)}

\* the maps of up to MaxEntries entries with positive scores
FinalizeInputs ==
    UNION { { [i \in 1..n |-> <<FinalizeNames[((i - 1) % Len(FinalizeNames)) + 1] \o
                                  (IF i > Len(FinalizeNames) THEN " II" ELSE ""), f[i]>>] :
              f \in [1..n -> FinalizeScores] } : n \in 1..MaxEntries }

InitFinalize ==
    /\ pc = "finalize"
    /\ req = Request("", "", "Erwachsener", "")
    /\ keys = {}
    /\ failing = {}
    /\ files = "absent"
    /\ knn_raises = FALSE
    /\ symptom_ids = <<>>
    /\ unmatched = <<>>
    /\ vitals = <<>>
    /\ warnings = <<>>
    /\ diagnosen \in FinalizeInputs
    /\ ml_results = NoMlResults
    /\ desci = <<>>
    /\ mimic = MimicNew
    /\ mimic_results = <<>>
    /\ provider = None
    /\ stack = <<>>
    /\ llm_calls = 0
    /\ llm_response = NoResponse
    /\ llm_results = EmptyLlm
    /\ ran = {}
    /\ outcome = NoOutcome

\* enhance_ml_results, lines 713-725, applied to the map
FinalizeStep ==
    /\ pc = "finalize"
    /\ diagnosen' = Finalize(diagnosen)
    /\ pc' = "finalized"
    /\ UNCHANGED <<envVars, symptom_ids, unmatched, vitals, warnings, ml_results, desci, mimicVars,
                   llmVars, ran, outcome>>

NextFinalize == FinalizeStep

SpecFinalize == InitFinalize /\ [][NextFinalize]_vars


(***************************************************************************)
(* The fusion step on its own: diagnose from line 846 on, for requests     *)
(* whose earlier stages have run                                           *)
(***************************************************************************)

\* requests with the output of the classifier for them
\* requests whose earlier stages have run
FusionRequests ==
    { Request("Brustschmerzen", "", "Säugling", ""),
      Request("Brustschmerzen, Kurzatmigkeit", "HR:110,T:36.7", "Erwachsener", ""),
      Request("Brustschmerzen, Atemnot", "HR:110,T:36.7", "Erwachsener", ""),
      Request("Fieber, Husten, Atemnot", "", "Erwachsener", ""),
      Request("Dysurie, Fieber", "", "Erwachsener", ""),
      Request("Kopfschmerzen, Fieber, Erbrechen", "", "Erwachsener", "") }

\* outputs of the classifier: those of MlOutputs and some that give all or
\* most of the probability to one class
FusionBaselines ==
    MlOutputs \cup
    { << <<"Virusgrippe", Pct(100)>> >>,
      << <<"Lungenembolie", Pct(100)>> >>,
      << <<"Akuter Herzinfarkt", Pct(100)>> >>,
      << <<"Migräne", Pct(75)>>, <<"Meningitis", Pct(25)>> >> }

FusionCases == FusionRequests \X FusionBaselines

InitFusion ==
    /\ pc = "enhance"
    /\ \E c \in FusionCases :
       \E merged \in {MergeRules(c[2], apply_medical_rules(c[1].symptome, parse_vitals(c[1].vitals_string),
                                                         c[1].alter, c[1].zusatz_info))} :
       \E adjusted \in {adjust_diagnosis_with_vitals(merged, parse_vitals(c[1].vitals_string),
                                                     c[1].alter)} :
       \E filtered \in {Top8(filter_unlikely_diagnoses(adjusted, c[1].symptome, c[1].alter, ""))} :
          /\ req = c[1]
          /\ diagnosen = filtered
    /\ keys \in {{}, {"openai"}}
    /\ failing = {}
    /\ files \in {"absent", "present", "corrupt"}
    /\ knn_raises \in {FALSE, files = "present"}
    /\ symptom_ids = symptome_abgleichen(req.symptome)[1]
    /\ unmatched = symptome_abgleichen(req.symptome)[2]
    /\ vitals = parse_vitals(req.vitals_string)
    /\ warnings = check_vitals(vitals, req.alter)
    /\ ml_results = MlResults(diagnosen, behandlung_vorschlagen(diagnosen)[1],
                              behandlung_vorschlagen(diagnosen)[2], unmatched, vitals, warnings,
                              req.alter)
    /\ desci = <<DesciFall(Split(req.symptome, ","), diagnosen, ml_results.behandlung)>>
    /\ mimic = initialize_database(MimicNew, files)
    /\ mimic_results \in IF LookupEmpty(mimic, req.vitals_string, req.zusatz_info) \/ knn_raises
                         THEN {<<>>} ELSE MimicCaseLists
    /\ provider = get_available_llm_provider(keys)
    /\ stack = <<>>
    /\ llm_calls = IF provider = None THEN 0 ELSE 1
    /\ llm_response \in IF provider = None THEN {NoResponse} ELSE LlmReplies
    /\ llm_results = IF provider = None THEN EmptyLlm ELSE ParsedLlm(llm_response)
    /\ ran = {"MATCH", "VITALS_PARSE", "RULES", "VITALS_ADJUST", "FILTER", "AUDIT", "SIMILARITY"}
                \cup (IF provider = None THEN {} ELSE {"NARRATIVE"})
    /\ outcome = NoOutcome

NextFusion == Enhance

SpecFusion == InitFusion /\ [][NextFusion]_vars

(***************************************************************************)
(* The end of the fusion on its own: enhance_ml_results from line 713 on   *)
(***************************************************************************)

\* the most diagnoses a narrative reply names
MaxLlmDiagnoses == 64

\* the name of the i-th diagnosis of a narrative reply that names diagnoses
\* the ML stage does not know
LlmName(i) == "Nebendiagnose" \o Ch(Digits, (i \div 10) + 1) \o Ch(Digits, (i % 10) + 1)

\* a narrative reply naming k such diagnoses with the probability p each
LlmManyReply(k, p) ==
    [form |-> "json_object", diagnosen |-> [i \in 1..k |-> <<LlmName(i), p>>],
     behandlung |-> "Weitere Abklärung", abrechnungscode |-> "R69", text |-> ""]

\* the merge loop of lines 619-637 when no name of the reply matches a key:
\* every iteration takes the else branch of line 634
MergeLlmNew(d, llm_diagnoses) ==
    d \o [i \in 1..Len(llm_diagnoses) |->
            <<llm_diagnoses[i][1], Min2(MulF(llm_diagnoses[i][2], 7, 10), Pct(40))>>]

\* requests of adults that take the generic path with no similar cases and no
\* critical pattern, with the output of the classifier
NormalizeCases ==
    { <<Request("Brustschmerzen, Kurzatmigkeit", "HR:110,T:36.7", "Erwachsener", ""),
        << <<"Akuter Herzinfarkt", Pct(60)>>, <<"Lungenentzündung", Pct(30)>>, <<"Virusgrippe", Pct(10)>> >> >>,
      <<Request("Fieber, Husten", "T:39.2", "Erwachsener", ""),
        << <<"Lungenentzündung", Pct(55)>>, <<"Pneumonie", Pct(45)>> >> >> }

\* diagnose inside enhance_ml_results at line 713: steps 1 to 4 have run on
\* the score map that the copy shares with ml_results
InitNormalize ==
    /\ pc = "normalize"
    /\ \E c \in NormalizeCases :
       \E merged \in {MergeRules(c[2], apply_medical_rules(c[1].symptome, parse_vitals(c[1].vitals_string), c[1].alter, c[1].zusatz_info))} :
       \E adjusted \in {adjust_diagnosis_with_vitals(merged, parse_vitals(c[1].vitals_string), c[1].alter)} :
       \E filtered \in {Top8(filter_unlikely_diagnoses(adjusted, c[1].symptome, c[1].alter, ""))} :
          /\ req = c[1]
          /\ diagnosen = filtered
    /\ keys = {"openai"}
    /\ failing = {}
    /\ files = "absent"
    /\ knn_raises = FALSE
    /\ symptom_ids = symptome_abgleichen(req.symptome)[1]
    /\ unmatched = symptome_abgleichen(req.symptome)[2]
    /\ vitals = parse_vitals(req.vitals_string)
    /\ warnings = check_vitals(vitals, req.alter)
    /\ mimic = initialize_database(MimicNew, files)
    /\ mimic_results = <<>>
    /\ provider = get_available_llm_provider(keys)
    /\ stack = <<>>
    /\ llm_calls = 1
    /\ \E k \in 0..MaxLlmDiagnoses, p \in {Pct(100), Pct(50)} : llm_response = LlmManyReply(k, p)
    /\ llm_results = ParsedLlm(llm_response)
    /\ \E ml \in {MlResults(diagnosen, behandlung_vorschlagen(diagnosen)[1], behandlung_vorschlagen(diagnosen)[2], unmatched, vitals, warnings, req.alter)} :
          /\ desci = <<DesciFall(Split(req.symptome, ","), diagnosen, ml.behandlung)>>
          /\ ml_results = [ml EXCEPT !.diagnosen = MergeLlmNew(diagnosen, llm_results.diagnosen)]
    /\ ran = {"MATCH", "VITALS_PARSE", "RULES", "VITALS_ADJUST", "FILTER", "AUDIT", "SIMILARITY", "NARRATIVE"}
    /\ outcome = NoOutcome

\* steps 5 and 6 on the merged map
NormalizeStep ==
    GenericAfter(ml_results, llm_results, <<ml_results.diagnosen, ml_results.top_diagnose>>)

\* enhance_ml_results, lines 713-751, and the return of diagnose
NormalizeReturn ==
    /\ pc = "normalize"
    /\ ml_results' = NormalizeStep.ml_after
    /\ outcome' = DiagnoseReturn(NormalizeStep, provider, mimic_results)
    /\ pc' = "done"
    /\ ran' = ran \cup {"MERGE"}
    /\ UNCHANGED <<envVars, symptom_ids, unmatched, vitals, warnings, diagnosen, desci, mimicVars,
                   llmVars>>

NextNormalize == NormalizeReturn

SpecNormalize == InitNormalize /\ [][NextNormalize]_vars

(***************************************************************************)
(* The symptom matching on its own: symptome_abgleichen over symptom texts *)
(***************************************************************************)

\* the most comma-separated terms of a symptom text
MaxTerms == 2

\* terms as a user types them: names and synonyms of the dictionary in
\* several casings, longer phrases around a name, fragments of a name,
\* unknown words, the empty term
MatchTerms ==
    {"Brustschmerzen", "ATEMNOT", "Fieber", " Reizhusten ", "starker Husten", "heiser",
     "xyzzy123", "Schwindel", "  Unwohlsein", ""}

\* the symptom texts of up to MaxTerms terms
MatchTexts ==
    {Join(l, ",") : l \in UNION {[1..n -> MatchTerms] : n \in 1..MaxTerms}}

\* a request with the symptom text alone, before patient_verarbeiten runs
InitMatch ==
    /\ pc = "match"
    /\ \E text \in MatchTexts : req = Request(text, "", "Erwachsener", "")
    /\ keys = {}
    /\ failing = {}
    /\ files = "absent"
    /\ knn_raises = FALSE
    /\ InitLocals

NextMatch == Match

SpecMatch == InitMatch /\ [][NextMatch]_vars

(***************************************************************************)
(* The ML stage on its own: patient_verarbeiten from line 664 on           *)
(***************************************************************************)

\* requests whose symptom text has a matched symptom
MlRequests ==
    { Request("Husten bellend, Fieber", "", "Kind", ""),
      Request("Reizhusten, Heiserkeit, Fieber", "", "Säugling", ""),
      Request("Husten, heiser, Fieber", "", "Kleinkind", ""),
      Request("Brustschmerzen, Atemnot", "", "Säugling", ""),
      Request("Fieber, Husten", "T:39.2", "Säugling", ""),
      Request("plötzliche stärkste Kopfschmerzen, Fieber", "", "Erwachsener", ""),
      Request("Plötzliche stärkste Kopfschmerzen, Fieber", "T:39.2", "Erwachsener", ""),
      Request("Brustschmerzen, Kurzatmigkeit", "HR:110,T:36.7", "Erwachsener", ""),
      Request("Brustschmerzen mit Atemnot, Atemnot bei Belastung, Kurzatmigkeit", "HR:110,T:36.7",
              "Erwachsener", ""),
      Request("Brustschmerzen, Fieber", "HR:80,T:39.0", "Erwachsener", "") }

\* outputs of the classifier, as diagnostizieren returns them
MlBaselines ==
    FusionBaselines \cup
    { << <<"Pseudokrupp", Pct(100)>> >>,
      << <<"Bronchitis", Pct(95)>>, <<"Pseudokrupp", Pct(5)>> >>,
      << <<"Meningitis", Pct(99)>>, <<"Subarachnoidalblutung", Pct(1)>> >>,
      << <<"Migräne", Pct(60)>>, <<"Subarachnoidalblutung", Pct(25)>>, <<"Meningitis", Pct(15)>> >>,
      << <<"Akuter Herzinfarkt", Pct(50)>>, <<"Angina pectoris", Pct(30)>>, <<"Lungenembolie", Pct(20)>> >> }

\* patient_verarbeiten at line 664: the symptoms are matched and scored
InitMl ==
    /\ pc = "vitals"
    /\ req \in MlRequests
    /\ keys = {}
    /\ failing = {}
    /\ files = "absent"
    /\ knn_raises = FALSE
    /\ symptom_ids = symptome_abgleichen(req.symptome)[1]
    /\ ~diagnostizieren_fehler(symptom_ids)
    /\ unmatched = symptome_abgleichen(req.symptome)[2]
    /\ vitals = <<>>
    /\ warnings = <<>>
    /\ diagnosen \in MlBaselines
    /\ ml_results = NoMlResults
    /\ desci = <<>>
    /\ mimic = MimicNew
    /\ mimic_results = <<>>
    /\ provider = None
    /\ stack = <<>>
    /\ llm_calls = 0
    /\ llm_response = NoResponse
    /\ llm_results = EmptyLlm
    /\ ran = {"MATCH"}
    /\ outcome = NoOutcome

NextMl == ParseVitals \/ Rules \/ VitalsAdjust \/ Filter \/ Audit

SpecMl == InitMl /\ [][NextMl]_vars

(***************************************************************************)
(* The normalisation on its own: the stages normalise one after the other  *)
(***************************************************************************)

\* a score map with a positive total, before a stage normalises it
InitRenormalize ==
    /\ pc = "scores"
    /\ req = Request("", "", "Erwachsener", "")
    /\ keys = {}
    /\ failing = {}
    /\ files = "absent"
    /\ knn_raises = FALSE
    /\ diagnosen \in FinalizeInputs
    /\ symptom_ids = <<>>
    /\ unmatched = <<>>
    /\ vitals = <<>>
    /\ warnings = <<>>
    /\ ml_results = NoMlResults
    /\ desci = <<>>
    /\ mimic = MimicNew
    /\ mimic_results = <<>>
    /\ provider = None
    /\ stack = <<>>
    /\ llm_calls = 0
    /\ llm_response = NoResponse
    /\ llm_results = EmptyLlm
    /\ ran = {}
    /\ outcome = NoOutcome

\* the normalisation of one stage: core.py, lines 250-254 and 564-567
NormalizeOnce ==
    /\ pc = "scores"
    /\ diagnosen' = NormalizeMap(diagnosen)
    /\ pc' = "normalized"
    /\ UNCHANGED <<envVars, symptom_ids, unmatched, vitals, warnings, ml_results, desci, mimicVars,
                   llmVars, ran, outcome>>

\* the normalisation of the next stage on the normalised map:
\* hybrid_model.py, lines 715-719
NormalizeAgain ==
    /\ pc = "normalized"
    /\ diagnosen' = NormalizeMap(diagnosen)
    /\ pc' = "renormalized"
    /\ UNCHANGED <<envVars, symptom_ids, unmatched, vitals, warnings, ml_results, desci, mimicVars,
                   llmVars, ran, outcome>>

NextRenormalize == NormalizeOnce \/ NormalizeAgain

SpecRenormalize == InitRenormalize /\ [][NextRenormalize]_vars

(***************************************************************************)
(* Concurrent requests on the shared reference-case object                 *)
(*                                                                         *)
(* hybrid_model.py creates one MIMICIntegration at import (line 62) and    *)
(* every request calls its get_similar_cases (line 804).  The web server   *)
(* runs requests in threads, the object has no lock, so the statements of  *)
(* get_similar_cases and initialize_database of different requests         *)
(* interleave.  Here pc maps each thread to its position, a table of mimic *)
(* holds the tag of the load that assigned it, mimic_results maps each     *)
(* thread to the tags of the tables it read, and ran is the set of threads *)
(* that ran the loading branch.                                            *)
(***************************************************************************)

\* number of concurrent requests
MaxThreads == 2

Threads == 1..MaxThreads

\* what a load by thread t assigns: the CSV files give the same data to every
\* load, _setup_mock_data draws new random cases in every load
LoadTag(t) == IF files = "present" THEN "files" ELSE "mock" \o Ch(Digits, t + 1)

NoSnapshot == [patients |-> None, vitals |-> None, labs |-> None, diagnoses |-> None]

InitMimic ==
    /\ pc = [t \in Threads |-> "check"]
    /\ req = Request("Fieber, Husten", "", "Erwachsener", "")
    /\ keys = {}
    /\ failing = {}
    /\ files \in {"absent", "present", "corrupt"}
    /\ knn_raises = FALSE
    /\ diagnosen = <<>>
    /\ symptom_ids = <<>>
    /\ unmatched = <<>>
    /\ vitals = <<>>
    /\ warnings = <<>>
    /\ ml_results = NoMlResults
    /\ desci = <<>>
    /\ mimic = MimicNew
    /\ mimic_results = [t \in Threads |-> NoSnapshot]
    /\ provider = None
    /\ stack = <<>>
    /\ llm_calls = 0
    /\ llm_response = NoResponse
    /\ llm_results = EmptyLlm
    /\ ran = {}
    /\ outcome = NoOutcome

MimicFrame ==
    UNCHANGED <<envVars, symptom_ids, unmatched, vitals, warnings, diagnosen, ml_results, desci,
                llmVars, outcome>>

\* get_similar_cases, line 175: if not self.is_initialized
SimCheck(t) ==
    /\ pc[t] = "check"
    /\ pc' = [pc EXCEPT ![t] = IF mimic.is_initialized THEN "recheck" ELSE "enter"]
    /\ UNCHANGED <<mimic, mimic_results, ran>>
    /\ MimicFrame

\* initialize_database, lines 75-76: return at once when already initialized
LoadEnter(t) ==
    /\ pc[t] = "enter"
    /\ pc' = [pc EXCEPT ![t] = IF mimic.is_initialized THEN "recheck" ELSE "load_patients"]
    /\ ran' = IF mimic.is_initialized THEN ran ELSE ran \cup {t}
    /\ UNCHANGED <<mimic, mimic_results>>
    /\ MimicFrame

\* lines 93 and 109: the patients table; read_csv of a corrupt file raises
\* and the method returns False (lines 102-104)
LoadPatients(t) ==
    /\ pc[t] = "load_patients"
    /\ IF files = "corrupt"
       THEN /\ pc' = [pc EXCEPT ![t] = "recheck"]
            /\ mimic' = mimic
       ELSE /\ pc' = [pc EXCEPT ![t] = "load_diagnoses"]
            /\ mimic' = [mimic EXCEPT !.patients_df = LoadTag(t)]
    /\ UNCHANGED <<mimic_results, ran>>
    /\ MimicFrame

\* lines 94 and 128
LoadDiagnoses(t) ==
    /\ pc[t] = "load_diagnoses"
    /\ pc' = [pc EXCEPT ![t] = "load_vitals"]
    /\ mimic' = [mimic EXCEPT !.diagnoses_df = LoadTag(t)]
    /\ UNCHANGED <<mimic_results, ran>>
    /\ MimicFrame

\* lines 95 and 142
LoadVitals(t) ==
    /\ pc[t] = "load_vitals"
    /\ pc' = [pc EXCEPT ![t] = "load_labs"]
    /\ mimic' = [mimic EXCEPT !.vitals_df = LoadTag(t)]
    /\ UNCHANGED <<mimic_results, ran>>
    /\ MimicFrame

\* lines 96 and 156
LoadLabs(t) ==
    /\ pc[t] = "load_labs"
    /\ pc' = [pc EXCEPT ![t] = "set_initialized"]
    /\ mimic' = [mimic EXCEPT !.labs_df = LoadTag(t)]
    /\ UNCHANGED <<mimic_results, ran>>
    /\ MimicFrame

\* lines 98-100
SetInitialized(t) ==
    /\ pc[t] = "set_initialized"
    /\ pc' = [pc EXCEPT ![t] = "recheck"]
    /\ mimic' = [mimic EXCEPT !.is_initialized = TRUE]
    /\ UNCHANGED <<mimic_results, ran>>
    /\ MimicFrame

\* get_similar_cases, lines 178-180: return [] when the load failed
SimRecheck(t) ==
    /\ pc[t] = "recheck"
    /\ pc' = [pc EXCEPT ![t] = IF mimic.is_initialized THEN "read_patients" ELSE "done"]
    /\ UNCHANGED <<mimic, mimic_results, ran>>
    /\ MimicFrame

\* line 188: self.patients_df.iterrows()
ReadPatients(t) ==
    /\ pc[t] = "read_patients"
    /\ pc' = [pc EXCEPT ![t] = "read_vitals"]
    /\ mimic_results' = [mimic_results EXCEPT ![t].patients = mimic.patients_df]
    /\ UNCHANGED <<mimic, ran>>
    /\ MimicFrame

\* line 192: self.vitals_df
ReadVitals(t) ==
    /\ pc[t] = "read_vitals"
    /\ pc' = [pc EXCEPT ![t] = "read_labs"]
    /\ mimic_results' = [mimic_results EXCEPT ![t].vitals = mimic.vitals_df]
    /\ UNCHANGED <<mimic, ran>>
    /\ MimicFrame

\* line 195: self.labs_df
ReadLabs(t) ==
    /\ pc[t] = "read_labs"
    /\ pc' = [pc EXCEPT ![t] = "read_diagnoses"]
    /\ mimic_results' = [mimic_results EXCEPT ![t].labs = mimic.labs_df]
    /\ UNCHANGED <<mimic, ran>>
    /\ MimicFrame

\* line 257: self.diagnoses_df, then the return of line 268
ReadDiagnoses(t) ==
    /\ pc[t] = "read_diagnoses"
    /\ pc' = [pc EXCEPT ![t] = "done"]
    /\ mimic_results' = [mimic_results EXCEPT ![t].diagnoses = mimic.diagnoses_df]
    /\ UNCHANGED <<mimic, ran>>
    /\ MimicFrame

NextMimic ==
    \E t \in Threads :
       \/ SimCheck(t) \/ LoadEnter(t) \/ LoadPatients(t) \/ LoadDiagnoses(t) \/ LoadVitals(t)
       \/ LoadLabs(t) \/ SetInitialized(t) \/ SimRecheck(t) \/ ReadPatients(t) \/ ReadVitals(t)
       \/ ReadLabs(t) \/ ReadDiagnoses(t)

SpecMimic == InitMimic /\ [][NextMimic]_vars

(***************************************************************************)
(* The merge of the narrative diagnoses on its own                         *)
(*                                                                         *)
(* Step 2 of enhance_ml_results (hybrid_model.py, lines 631-650) for score *)
(* maps with a Pneumonie entry and narrative results that state one        *)
(* probability for a name matching that entry, exactly or by a shared      *)
(* word.  parse_llm_response takes the probability as the reply states it, *)
(* so values above 100 are among the inputs.                               *)
(***************************************************************************)

BlendScores == {Pct(5), Pct(20), Pct(40), Pct(60), Pct(80), Pct(95)}

BlendProbabilities ==
    {Pct(1), Pct(20), Pct(40), Pct(60), Pct(80), Pct(100), Pct(101), Pct(150), Pct(250)}

BlendNames == {"Pneumonie", "Ambulant erworbene Pneumonie"}

InitBlend ==
    /\ pc = "merge"
    /\ req = Request("Husten", "", "Erwachsener", "")
    /\ keys = {"openai"}
    /\ failing = {}
    /\ files = "absent"
    /\ knn_raises = FALSE
    /\ \E s \in BlendScores : diagnosen = << <<"Pneumonie", s>>, <<"Bronchitis", Pct(100) - s>> >>
    /\ symptom_ids = <<>>
    /\ unmatched = <<>>
    /\ vitals = <<>>
    /\ warnings = <<>>
    /\ ml_results = NoMlResults
    /\ desci = <<>>
    /\ mimic = MimicNew
    /\ mimic_results = <<>>
    /\ provider = "openai"
    /\ stack = <<>>
    /\ llm_calls = 1
    /\ llm_response = NoResponse
    /\ \E n \in BlendNames : \E p \in BlendProbabilities :
          llm_results = [EmptyLlm EXCEPT !.diagnosen = << <<n, p>> >>]
    /\ ran = {}
    /\ outcome = NoOutcome

\* lines 632-650: the loop over the narrative diagnoses
LlmMerge ==
    /\ pc = "merge"
    /\ diagnosen' = LlmStep(diagnosen, llm_results)
    /\ pc' = "merged"
    /\ UNCHANGED <<envVars, symptom_ids, unmatched, vitals, warnings, ml_results, desci, mimicVars,
                   llmVars, ran, outcome>>

NextBlend == LlmMerge

SpecBlend == InitBlend /\ [][NextBlend]_vars

(***************************************************************************)
(* call_llm_service on its own                                             *)
(*                                                                         *)
(* The narrative call of one request for every set of providers that have  *)
(* an API key and every set of them whose calls raise.  The interpreter    *)
(* runs the one thread of the call without pause, so a step that can be    *)
(* taken is taken: weak fairness of the next-state relation.               *)
(***************************************************************************)
InitLlm ==
    /\ pc = "llm"
    /\ req = Request("Fieber, Husten", "", "Erwachsener", "")
    /\ keys \in SUBSET ToSet(Providers)
    /\ failing \in SUBSET keys
    /\ files = "absent"
    /\ knn_raises = FALSE
    /\ InitLocals

NextLlm ==
    \/ LlmStart \/ LlmCallOk \/ LlmCallFails \/ LlmFallbackCall \/ LlmFallbackOverflow
    \/ LlmGiveUp

SpecLlm == InitLlm /\ [][NextLlm]_vars /\ WF_vars(NextLlm)

(***************************************************************************)
(* Properties                                                              *)
(***************************************************************************)

\* the request has ended
Done == pc = "done"

\* diagnose returned a value / a value that is no error result
Returned == Done /\ outcome.kind = "return"

NonError == Returned /\ outcome.path # "error"

\* the matching has run and found no symptom identifier in the symptom text
NoMatch == pc # "match" /\ symptom_ids = <<>>

\* the matching has run and found a symptom identifier
Matched == pc # "match" /\ symptom_ids # <<>>

\* the sum of the scores of d is within tol of 100
SumNear100(d, tol) == SumValues(d) >= Pct(100) - tol /\ SumValues(d) <= Pct(100) + tol

\* the stages after the matching
LaterStages == {"VITALS_PARSE", "RULES", "VITALS_ADJUST", "FILTER", "AUDIT", "SIMILARITY", "NARRATIVE",
                "MERGE"}

\* C1: a request whose symptom text yields no matched symptom identifier never
\* raises, runs no stage after the matching (no rules, vitals, filter, audit
\* record, similarity lookup or provider call), and ends with the structured
\* "Keine gültigen Symptome erkannt" error result.
C1_NoMatchEndsInError ==
    NoMatch =>
        /\ ran \cap LaterStages = {}
        /\ desci = <<>>
        /\ mimic = MimicNew /\ mimic_results = <<>>
        /\ llm_calls = 0 /\ stack = <<>>
        /\ outcome.kind # "raise"
        /\ Done => /\ outcome.kind = "return"
                   /\ outcome.path = "error"
                   /\ outcome.result.fehler = "Keine gültigen Symptome erkannt"

\* a whitespace-only request has ended with the error result
C1_Witness ==
    /\ Done /\ NoMatch /\ req.symptome = "   "
    /\ outcome.kind = "return" /\ outcome.path = "error"
    /\ outcome.result.fehler = "Keine gültigen Symptome erkannt"
    /\ ran = {"MATCH"}

\* C2: every non-empty score map produced by the final normalise / drop / sort
\* step sums to within 0.1 of 100 and holds only values strictly above 2.0.
C2_FinalizeSumAndFloor ==
    (pc = "finalized" /\ Len(diagnosen) > 0) =>
        /\ SumNear100(diagnosen, Tenths(1))
        /\ \A i \in 1..Len(diagnosen) : diagnosen[i][2] > Pct(2)

\* C3: every non-error outcome of diagnose, on every return path, has a score
\* map that sums to about 100 (within one point) and is in descending order.
C3_OutcomeSumAndOrder ==
    NonError =>
        /\ SumNear100(outcome.result.diagnosen, Pct(1))
        /\ IsDescending(outcome.result.diagnosen)

\* the narrative stage failed: a provider is configured and every call raised
\* (the error value came back), or the reply parsed to no result dict
NarrativeFails ==
    /\ keys # {}
    /\ \/ failing = keys
       \/ llm_response.form \in {"error", "json_string", "none"}

\* the fusion of the ML-stage result with empty narrative and similarity
\* contributions
EmptyFusion ==
    enhance_ml_results([ml_results EXCEPT !.diagnosen = diagnosen], EmptyLlm, <<>>, req.symptome,
                       req.vitals_string, req.alter, req.zusatz_info)

\* C4: a request with a matched symptom, for which the similarity lookup
\* raises and the narrative stage fails, ends with a returned non-error
\* outcome equal to the one obtained from empty contributions.
C4_BothFailStillReturns ==
    (Done /\ Matched /\ knn_raises /\ NarrativeFails) =>
        /\ outcome.kind = "return"
        /\ outcome.path # "error"
        /\ outcome.result = EmptyFusion.result

\* the narrative result / the similar cases went into the returned outcome
NarrativeContributed ==
    /\ outcome.path = "generic"
    /\ llm_results.type = "dict"
    /\ \/ Len(llm_results.diagnosen) > 0
       \/ LlmText(llm_results, llm_results.behandlung)
       \/ LlmText(llm_results, llm_results.abrechnungscode)

SimilarityContributed == outcome.path = "generic" /\ Len(mimic_results) > 0

\* C5: the source tag of a returned outcome names the narrative advisor only
\* if the narrative stage contributed to the outcome, and names similarity
\* only if similar cases contributed.
C5_SourceNamesContributors ==
    Returned =>
        /\ outcome.source \in {"ml_llm", "hybrid"} => NarrativeContributed
        /\ outcome.source \in {"ml_mimic", "hybrid"} => SimilarityContributed

\* the vitals text has a heart rate that is no integer
MalformedHeartRate == pc \notin {"match", "vitals"} /\ Has(vitals, "HR") /\ ~IntOk(Get(vitals, "HR"))

\* C6: a request with a matched symptom whose vitals text has a heart rate
\* that is no integer runs every later stage and ends with a returned outcome,
\* and no warning is given.
C6_MalformedVitalsIgnored ==
    (Done /\ Matched /\ MalformedHeartRate) =>
        /\ outcome.kind = "return"
        /\ (LaterStages \ {"NARRATIVE"}) \subseteq ran
        /\ warnings = <<>>

\* C7: one request makes at most two provider calls.
C7_AtMostTwoProviderCalls == llm_calls <= 2

\* C8: with the dataset files absent the similarity lookup returns no cases.
C8_AbsentFilesNoCases ==
    (files = "absent" /\ "SIMILARITY" \in ran) => mimic_results = <<>>

\* the tier of a score map: high for a top score above 40 that leads the
\* runner-up, if any, by more than 15 points; medium otherwise
Tier(sorted) ==
    IF sorted[1][2] > Pct(40) /\ (Len(sorted) < 2 \/ sorted[1][2] - sorted[2][2] > Pct(15))
    THEN "hoch" ELSE "mittel"

\* C9: every non-error outcome with a non-empty score map carries a confidence
\* tier (niedrig, mittel, hoch), and the tier is the one its scores call for.
C9_ConfidenceTier ==
    (NonError /\ Len(outcome.result.diagnosen) > 0) =>
        /\ outcome.result.diagnose_konfidenz \in {"niedrig", "mittel", "hoch"}
        /\ outcome.result.diagnose_konfidenz = Tier(SortDesc(outcome.result.diagnosen))

\* C10: an outcome of the generic merge to which the narrative advisor gave
\* neither a treatment text nor a billing code carries the lookup-table
\* treatment and code of its own top diagnosis.
C10_TreatmentOfReturnedTop ==
    (/\ Returned /\ outcome.path = "generic"
     /\ ~LlmText(llm_results, llm_results.behandlung)
     /\ ~LlmText(llm_results, llm_results.abrechnungscode)) =>
        /\ outcome.result.behandlung =
               Lookup(behandlungen, outcome.result.top_diagnose, "Facharzt konsultieren")
        /\ outcome.result.abrechnungscode = abrechnungscode_erzeugen(outcome.result.top_diagnose)

\* the score map of a returned outcome is empty
EmptyOutcome == Returned /\ outcome.path # "error" /\ Len(outcome.result.diagnosen) = 0

\* C11: whenever the score map of a returned non-error outcome is empty, its
\* top diagnosis is null (and the request did return, so no exception was
\* raised), whichever step removed the entries
C11_EmptyMapNullTop == EmptyOutcome => outcome.result.top_diagnose = None

\* the comma-separated terms of the symptom text, trimmed, in their original
\* letter casing
TrimmedTerms == MapSeq(Split(req.symptome, ","), Strip)

\* some dictionary entry matches the term
TermMatched(term) == \E i \in 1..Len(SYMPTOM_DB) : EntryMatches(Lower(term), SYMPTOM_DB[i])

\* C12: once the matching has run, each non-empty term of the symptom text
\* that matches no dictionary entry is in the unmatched list trimmed and in
\* its original letter casing, and no matched term is in the unmatched list
C12_UnmatchedVerbatim ==
    pc # "match" =>
       \A i \in 1..Len(TrimmedTerms) :
          TrimmedTerms[i] # "" =>
             (InList(unmatched, TrimmedTerms[i]) <=> ~TermMatched(TrimmedTerms[i]))

\* the entry's canonical name or one of its synonyms is a substring of the term
NameOrSynonymIn(term, entry) ==
    \/ Contains(Lower(entry[2]), term)
    \/ \E j \in 1..Len(entry[3]) : Contains(Lower(entry[3][j]), term)

NamedBySome(term) == \E i \in 1..Len(SYMPTOM_DB) : NameOrSynonymIn(term, SYMPTOM_DB[i])

NamedByNone(term) == term # "" /\ ~NamedBySome(term)

\* the identifier of the first entry in dictionary order that names the term
FirstNaming(term) ==
    SYMPTOM_DB[CHOOSE i \in 1..Len(SYMPTOM_DB) :
                  /\ NameOrSynonymIn(term, SYMPTOM_DB[i])
                  /\ \A j \in 1..(i - 1) : ~NameOrSynonymIn(term, SYMPTOM_DB[j])][1]

\* C13: a term is matched exactly when the canonical name or a synonym of
\* some entry is a substring of the term, the identifier returned for it is
\* that of the first such entry in dictionary order, and every other
\* non-empty term is unmatched
C13_MatchBySubstringOfTerm ==
    pc # "match" =>
       /\ symptom_ids = MapSeq(SelectSeq(MapSeq(TrimmedTerms, Lower), NamedBySome), FirstNaming)
       /\ MapSeq(unmatched, Lower) = SelectSeq(MapSeq(TrimmedTerms, Lower), NamedByNone)

\* an adult with chest pain and a dyspnea term, tachycardic, both symptoms
\* matched, and neither narrative nor similarity contributions
ChestPainDyspnea ==
    /\ req.alter = "Erwachsener"
    /\ req.symptome \in {"Brustschmerzen, Kurzatmigkeit", "Brustschmerzen, Atemnot"}
    /\ req.vitals_string = "HR:110,T:36.7"
    /\ symptom_ids = <<"S1", "S2">>
    /\ provider = None
    /\ mimic_results = <<>>

\* C14: for an adult with chest pain and a dyspnea term, vitals HR:110,T:36.7,
\* both symptoms matched and no narrative or similarity contribution, and for
\* every output of the classifier, the returned outcome ranks an
\* infarction-class diagnosis first, its confidence tier is high or medium,
\* and its billing code is non-empty
C14_InfarctionRankedFirst ==
    (Done /\ ChestPainDyspnea) =>
        /\ NonError
        /\ Len(outcome.result.diagnosen) > 0
        /\ outcome.result.diagnosen[1][1] \in {"Akuter Herzinfarkt", "Myokardinfarkt"}
        /\ outcome.result.top_diagnose \in {"Akuter Herzinfarkt", "Myokardinfarkt"}
        /\ outcome.result.diagnose_konfidenz \in {"hoch", "mittel"}
        /\ outcome.result.abrechnungscode \notin {"", Absent, None}

\* such a request has returned for a classifier output that gives every
\* probability to another class
C14_Witness ==
    /\ Done /\ ChestPainDyspnea
    /\ req.symptome = "Brustschmerzen, Atemnot"
    /\ Has(diagnosen, "Lungenembolie") /\ ~Has(diagnosen, "Virusgrippe")
    /\ Get(diagnosen, "Lungenembolie") > Pct(25)
    /\ outcome.result.top_diagnose = "Akuter Herzinfarkt"

\* a child with a cough term, a barking or hoarse quality and fever, and no
\* vitals
BarkingCough ==
    /\ IstKind(req.alter)
    /\ Contains("husten", Lower(req.symptome))
    /\ AnyIn({"bellend", "heiser", "heiserkeit"}, Lower(req.symptome))
    /\ Contains("fieber", Lower(req.symptome))
    /\ req.vitals_string = ""

\* C15: for a child with a cough term, a barking or hoarse quality and fever,
\* without vitals, and for every output of the classifier, the score map
\* that enters the filter holds Pseudokrupp with a score of at least 70
C15_PseudokruppBeforeFilter ==
    (pc = "filter" /\ BarkingCough) =>
        /\ Has(diagnosen, "Pseudokrupp")
        /\ Get(diagnosen, "Pseudokrupp") >= Pct(70)

\* the map of an infant's barking cough enters the filter with Pseudokrupp
\* raised from a classifier score of 5
C15_Witness ==
    /\ pc = "filter" /\ BarkingCough /\ req.alter = "Säugling"
    /\ Has(diagnosen, "Bronchitis")
    /\ Get(diagnosen, "Pseudokrupp") = Pct(80)

\* the map that enters the filter, after every multiplicative adjustment of
\* the filter and before its threshold and renormalisation
AfterFilterFactors == FilterAdjusted(diagnosen, req.symptome, req.alter, "")

\* C16: for an infant, every adult-only diagnosis that enters the filter with
\* the score S has, after all multiplicative adjustments of the filter and
\* before renormalisation, a value of at most 0.01 * S, whatever the symptom
\* text (values are in thousandths, so half a thousandth of rounding is
\* allowed for)
C16_InfantAdultOnlyDamped ==
    (pc = "filter" /\ req.alter = "Säugling") =>
        \A i \in 1..Len(diagnosen) :
           diagnosen[i][1] \in adult_only_diagnoses =>
              100 * Get(AfterFilterFactors, diagnosen[i][1]) <= diagnosen[i][2] + 50

\* the symptom text holds the red-flag phrase for a sudden worst headache,
\* and fever
SuddenHeadacheWithFever ==
    /\ Contains("plötzliche stärkste kopfschmerzen", Lower(req.symptome))
    /\ Contains("fieber", Lower(req.symptome))

\* C17: when the symptom text holds the red-flag phrase for a sudden worst
\* headache together with fever, Meningitis and Subarachnoidalblutung leave
\* the filter with a score no lower than the non-zero score they entered with
C17_RedFlagNeverLowers ==
    [][(pc = "filter" /\ SuddenHeadacheWithFever) =>
          \A k \in {"Meningitis", "Subarachnoidalblutung"} :
             (Has(diagnosen, k) /\ Get(diagnosen, k) > 0) =>
                GetOr(diagnosen', k, 0) >= Get(diagnosen, k)]_vars

\* C18: normalising to 100 (scaling every value by 100 / total and rounding
\* to one decimal) is idempotent: normalising a normalised map of positive
\* total changes nothing
C18_NormalizeIdempotent ==
    [][(pc = "normalized" /\ SumValues(diagnosen) > 0) => diagnosen' = diagnosen]_vars

\* C19: when a request has completed with a non-error outcome, the one audit
\* record appended for it holds the diagnosis map and the treatment text of
\* the outcome that diagnose returned
C19_AuditRecordOfOutcome ==
    NonError =>
        /\ Len(desci) = 1
        /\ ToSet(desci[1].diagnosen) = ToSet(outcome.result.diagnosen)
        /\ desci[1].behandlung = outcome.result.behandlung

\* the contributions of the rule engine for the request
RuleContributions == apply_medical_rules(req.symptome, vitals, req.alter, req.zusatz_info)

\* C20: the rules stage merges the contribution for a diagnosis of the
\* classifier baseline additively (baseline score + contribution) and inserts
\* the contribution for an absent diagnosis with its own score; the rule
\* engine returns plain scores and marks none of them as a floor
C20_RulesMergeAdditive ==
    [][(pc = "rules" /\ pc' = "adjust") =>
          \A i \in 1..Len(RuleContributions) :
             LET k == RuleContributions[i][1]
                 w == RuleContributions[i][2]
             IN  Get(diagnosen', k) = IF Has(diagnosen, k) THEN Get(diagnosen, k) + w ELSE w]_vars

\* the scores the leading-symptom table accumulates for the request
LeitScores == LeitLoop(<<>>, MapSeq(Split(req.symptome, ","), StripLower))

\* C21: once the rule engine has run, its final score for a diagnosis is at
\* least the score the leading-symptom table accumulated for it: no later
\* rule lowers a score
C21_RulesNeverLower ==
    pc = "adjust" =>
        \A i \in 1..Len(LeitScores) :
           GetOr(RuleContributions, LeitScores[i][1], 0) >= LeitScores[i][2]

\* the additional information of the request has a lab section with fields
LabsGiven == Len(SectionDict("laborwerte:", req.zusatz_info, TRUE)) > 0

\* C22: the lab rules never raise: for a request with lab fields (and a
\* well-formed heart rate) the rule engine completes, whatever the lab values
C22_LabRulesNeverRaise ==
    ("RULES" \in ran /\ LabsGiven /\ ~MalformedHeartRate) => outcome.kind # "raise"

\* the text the fusion searches: symptoms and additional information, lowered
SymptomText == Lower(req.symptome) \o " " \o Lower(req.zusatz_info)

\* the score map the loop over critical_patterns starts from (generic path)
BeforeCritical ==
    AgeStep(MimicStep(LlmStep(Override(Override(ml_results.diagnosen, IsInfarktText(SymptomText),
                                                "Akuter Herzinfarkt"),
                                       IsMeningitisText(SymptomText), "Meningitis"),
                              llm_results),
                      mimic_results),
            req.alter)

\* the critical patterns whose three symptoms all occur in the text
TextPatterns ==
    {j \in 1..Len(critical_patterns) :
        \A i \in 1..Len(critical_patterns[j][1]) : Contains(critical_patterns[j][1][i], SymptomText)}

\* pattern j is the only one matching the text and its boosted target exceeds 50
SoleBoostedAbove50(j) ==
    /\ TextPatterns = {j}
    /\ Has(BeforeCritical, critical_patterns[j][2])
    /\ MulF(Get(BeforeCritical, critical_patterns[j][2]), critical_patterns[j][3], 10) > Pct(50)

\* C23: when the fusion runs its generic path to the end, exactly one critical
\* pattern matches the text and the boosted score of its target exceeds 50,
\* the returned top diagnosis is that target
C23_CriticalTargetIsTop ==
    [][(pc = "enhance" /\ pc' = "done" /\ outcome'.path = "generic") =>
          \A j \in 1..Len(critical_patterns) :
             SoleBoostedAbove50(j) => outcome'.result.top_diagnose = critical_patterns[j][2]]_vars

\* the scores of d sum to 100 up to the rounding of each score to one decimal
SumsTo100(d) ==
    /\ SumValues(d) - Pct(100) <= 50 * Len(d)
    /\ Pct(100) - SumValues(d) <= 50 * Len(d)

\* C24: the VITALS_ADJUST stage turns every non-empty score map with a
\* positive total into a map that sums to 100 within rounding, for every
\* vitals reading, the empty one included
C24_AdjustSumsTo100 ==
    [][(pc = "adjust" /\ pc' = "filter" /\ Len(diagnosen) > 0 /\ SumValues(diagnosen) > 0) =>
          SumsTo100(diagnosen')]_vars

\* the parsed vitals hold a temperature above 38.5 and a heart rate below 100
FeverWithCalmHeart ==
    /\ Has(vitals, "T") /\ FloatOk(Get(vitals, "T")) /\ FloatVal(Get(vitals, "T")) > 38500
    /\ Has(vitals, "HR") /\ IntOk(Get(vitals, "HR")) /\ IntVal(Get(vitals, "HR")) < 100

\* C25: for a request whose vitals hold a temperature above 38.5 and a heart
\* rate below 100, the FILTER stage multiplies every infarction-class
\* diagnosis of the map by 0.1 before it renormalises: the stage leaves the
\* map the filter computes when it is given the request's vitals
C25_FilterDampsInfarctionOnFever ==
    [][(pc = "filter" /\ pc' = "audit" /\ FeverWithCalmHeart
        /\ \E k \in {"Akuter Herzinfarkt", "Myokardinfarkt"} : Has(diagnosen, k)) =>
          diagnosen' = Top8(filter_unlikely_diagnoses(diagnosen, req.symptome, req.alter,
                                                      req.vitals_string))]_vars

\* the fusion of the present request for another ML score map, narrative
\* result and list of similar cases
OtherFusion(d, l, m) ==
    enhance_ml_results([ml_results EXCEPT !.diagnosen = d], l, m, req.symptome,
                       req.vitals_string, req.alter, req.zusatz_info)

\* C26: a fusion that returns from a special-case branch (allergy, urinary,
\* stroke) returns a score map fixed by the branch alone: the same request
\* with other classifier scores, another narrative result or other similar
\* cases, returning from the same branch, gets the identical score map
C26_SpecialCaseMapFixedByBranch ==
    [][(pc = "enhance" /\ pc' = "done" /\ outcome'.path \in {"allergy", "uti", "stroke"}) =>
          \A d \in MlOutputs : \A l \in {EmptyLlm, llm_results} : \A m \in {<<>>, mimic_results} :
             OtherFusion(d, l, m).path = outcome'.path =>
                OtherFusion(d, l, m).result.diagnosen = outcome'.result.diagnosen]_vars

\* a thread has read the four tables of the reference cases
ReadAll(t) == pc[t] = "done" /\ mimic_results[t].patients # None

\* C27: under every interleaving of concurrent requests the reference cases
\* are loaded at most once, and every request reads its four tables
\* (patients, diagnoses, vitals, labs) from one and the same load
C27_LoadedOnceOneSnapshot ==
    /\ Cardinality(ran) <= 1
    /\ \A t \in Threads :
          ReadAll(t) =>
             /\ mimic_results[t].vitals = mimic_results[t].patients
             /\ mimic_results[t].labs = mimic_results[t].patients
             /\ mimic_results[t].diagnoses = mimic_results[t].patients

\* C28: in the generic merge, for a narrative diagnosis with a stated
\* probability p > 0 that matches an existing entry, the blend weight
\* 0.4 + 0.3 * p / 100 lies in [0.4, 0.7] and the blended score lies between
\* the existing score and p (weights in ten-thousandths)
C28_BlendWeightAndScoreBounded ==
    [][(pc = "merge" /\ pc' = "merged") =>
          \A i \in 1..Len(llm_results.diagnosen) :
             LET p == llm_results.diagnosen[i][2]
                 k == find_matching_diagnosis(llm_results.diagnosen[i][1], diagnosen)
             IN  (p > 0 /\ k # None) =>
                    /\ LlmWeight4(p) >= 4000 /\ LlmWeight4(p) <= 7000
                    /\ Get(diagnosen', k) >= Min2(Get(diagnosen, k), p)
                    /\ Get(diagnosen', k) <= Max2(Get(diagnosen, k), p)]_vars

\* call_llm_service has returned a provider's response or the error value
LlmReturned == pc = "llm_parse" /\ llm_response \in LlmReplies \cup {LlmError}

C30_FusionKeepsMlResults ==
    [][(pc = "enhance" /\ pc' = "done") =>
          /\ ml_results' = ml_results
          /\ outcome'.path = "fallback" => outcome'.result = ml_results]_vars

====
